---- MODULE Spec2Model ----
(***************************************************************************)
(* A model of the whisperly_client library: the response/error helpers of  *)
(* src/utils/whisperly-helpers.ts and the WhisperlyClient classes of       *)
(* src/network/WhisperlyClient.ts and its entity-centric revision with the *)
(* /api/v1 prefix.                                                         *)
(*                                                                         *)
(* JavaScript values are tagged records; a template string is the sequence *)
(* of its pieces; an async method is a process whose pc names the await it *)
(* is suspended at.                                                        *)
(***************************************************************************)
EXTENDS Integers, Sequences, FiniteSets, TLC

VARIABLES
  revision,      \* which WhisperlyClient class was constructed
  baseUrl,       \* WhisperlyClient.baseUrl, set by the constructor
  getIdToken,    \* WhisperlyClient.getIdToken: what its n-th invocation settles to
  providerCalls, \* spy on getIdToken: how often it has been invoked
  calls,         \* one record per client method call (an async activation)
  hResponse,     \* the NetworkResponse handed to handleNetworkResponse
  hOutcome,      \* what handleNetworkResponse did with it
  uArgs,         \* the base and the fragments handed to buildUrl
  uResult,       \* the results of the successive buildUrl calls
  qParams,       \* the mapping handed to formatQueryParams, in insertion order
  qResult,       \* what formatQueryParams returned
  hooksRevision, \* which generation of the hooks the component tree renders
  observers,     \* the query hooks rendered so far, one per component
  queries,       \* the query cache: one entry per query key, in insertion order
  queryFnCalls,  \* spy on the query functions: every invocation, in order
  mutation       \* the mutation last started through a hook

vars == <<revision, baseUrl, getIdToken, providerCalls, calls, hResponse, hOutcome,
          uArgs, uResult, qParams, qResult, hooksRevision, observers, queries,
          queryFnCalls, mutation>>

configVars == <<revision, baseUrl, getIdToken>>
clientVars == <<revision, baseUrl, getIdToken, providerCalls, calls>>
helperVars == <<hResponse, hOutcome, uArgs, uResult, qParams, qResult>>
hookVars == <<hooksRevision, observers, queries, queryFnCalls, mutation>>

----------------------------------------------------------------------------
(* Bounds                                                                  *)

\* number of client method calls a behaviour may start
MaxCalls == 1
\* how many {data: ...} envelopes may be nested around a payload
MaxWrap == 2
\* number of components that may render a query hook
MaxObservers == 2
\* number of times a component may call refetch() or update() by hand
MaxRefetches == 1
\* number of mutations a behaviour may start
MaxMutations == 1
\* how many characters a base or fragment handed to buildUrl may have
MaxLen == 3
\* how many entries a mapping handed to formatQueryParams may have
MaxParams == 2

----------------------------------------------------------------------------
(* JavaScript values                                                       *)

Undefined == [t |-> "undefined"]
Null == [t |-> "null"]
Num(n) == [t |-> "number", n |-> n]
Str(s) == [t |-> "string", s |-> s]
Bool(b) == [t |-> "boolean", b |-> b]
Arr(a) == [t |-> "array", a |-> a]
Obj(m) == [t |-> "object", m |-> m]

\* JavaScript truthiness (the `json &&` test)
Truthy(v) ==
  CASE v.t = "undefined" -> FALSE
    [] v.t = "null" -> FALSE
    [] v.t = "number" -> v.n # 0
    [] v.t = "string" -> v.s # ""
    [] v.t = "boolean" -> v.b
    [] OTHER -> TRUE

\* typeof v === 'object'
TypeofObject(v) == v.t \in {"null", "array", "object"}

\* 'k' in v, for a value that passed the two tests above
HasKey(v, k) == v.t = "object" /\ k \in DOMAIN v.m

\* payloads a server may send inside or instead of the envelope
Payloads ==
  { Undefined, Null, Num(0), Num(1), Str(""), Str("x"), Bool(FALSE), Bool(TRUE),
    Arr(<<>>), Arr(<<Obj([id |-> Str("1")])>>),
    Obj(<<>>), Obj([id |-> Num(1)]), Obj([error |-> Str("x")]) }

\* the server's outer envelope { success, data, timestamp }
Envelope(v) == Obj([success |-> Bool(TRUE), data |-> v, timestamp |-> Str("ts")])
\* a bare { data: v } wrapper, as the tests build it
Wrapper(v) == Obj([data |-> v])

RECURSIVE WrappedBodies(_)
WrappedBodies(n) ==
  IF n = 0 THEN Payloads
  ELSE LET inner == WrappedBodies(n - 1)
       IN inner \cup { Wrapper(v) : v \in inner } \cup { Envelope(v) : v \in Payloads }

Bodies == WrappedBodies(MaxWrap)

StatusCodes == {200, 204, 400, 401, 404, 500}
StatusTexts == {"", "OK", "Not Found", "Unauthorized"}

----------------------------------------------------------------------------
(* Text: a string is the sequence of its characters.  The characters that  *)
(* the code or a URL parser looks at ("/", "?", "#", "&", "=", " ", "+",   *)
(* ":") are pieces of their own; a piece such as "acme" stands for a run   *)
(* of unreserved characters.                                               *)

EndsWith(text, ch) == Len(text) > 0 /\ text[Len(text)] = ch
StartsWith(text, ch) == Len(text) > 0 /\ text[1] = ch

\* text.slice(0, -1)
SliceOffLast(text) == SubSeq(text, 1, Len(text) - 1)

RECURSIVE TextsOfLen(_, _)
TextsOfLen(alphabet, n) ==
  IF n = 0 THEN { <<>> }
  ELSE { Append(t, ch) : t \in TextsOfLen(alphabet, n - 1), ch \in alphabet }

TextsUpTo(alphabet, n) == UNION { TextsOfLen(alphabet, k) : k \in 0..n }

\* mutants of buildUrl: one that never adds the leading slash, one that
\* never strips the trailing slash
buildUrlNoLeadingSlash(base, path) ==
  LET cleanBase == IF EndsWith(base, "/") THEN SliceOffLast(base) ELSE base
  IN cleanBase \o path

buildUrlKeepTrailingSlash(base, path) ==
  LET cleanPath == IF StartsWith(path, "/") THEN path ELSE <<"/">> \o path
  IN base \o cleanPath

buildUrl(base, path) ==
  LET cleanBase == IF EndsWith(base, "/") THEN SliceOffLast(base) ELSE base
      cleanPath == IF StartsWith(path, "/") THEN path ELSE <<"/">> \o path
  IN cleanBase \o cleanPath

\* a JS string value given by its characters
Text(chars) == [t |-> "string", chars |-> chars]

\* the decimal numeral of a number, one run of digits
NumeralOf(n) ==
  <<"0", "1", "2", "3", "4", "5", "6", "7", "8", "9", "10">>[n + 1]

\* String(value) of a string, number or boolean
String(value) ==
  CASE value.t = "string" -> value.chars
    [] value.t = "number" -> <<NumeralOf(value.n)>>
    [] value.t = "boolean" -> IF value.b THEN <<"true">> ELSE <<"false">>

\* one character as URLSearchParams.toString() writes it
FormEncodeChar(ch) ==
  CASE ch = " " -> "+"
    [] ch = "+" -> "%2B"
    [] ch = "&" -> "%26"
    [] ch = "=" -> "%3D"
    [] ch = "/" -> "%2F"
    [] ch = "?" -> "%3F"
    [] ch = "#" -> "%23"
    [] ch = ":" -> "%3A"
    [] OTHER -> ch

FormEncode(text) == [i \in 1..Len(text) |-> FormEncodeChar(text[i])]

\* one character as encodeURIComponent writes it
encodeURIComponentChar(ch) ==
  CASE ch = " " -> "%20"
    [] ch = "+" -> "%2B"
    [] ch = "&" -> "%26"
    [] ch = "=" -> "%3D"
    [] ch = "/" -> "%2F"
    [] ch = "?" -> "%3F"
    [] ch = "#" -> "%23"
    [] ch = ":" -> "%3A"
    [] OTHER -> ch

\* mutant of encodeURIComponent: the text is inserted as it is
encodeURIComponentRaw(text) == text

encodeURIComponent(text) == [i \in 1..Len(text) |-> encodeURIComponentChar(text[i])]

\* A params object is the sequence of its own [key, value] properties in the
\* order they were inserted.  Object.entries lists the keys that are array
\* indices first, in ascending numeric order, then the other keys in
\* insertion order.
ArrayIndexOf(key) ==
  CASE key = <<"2">> -> 2
    [] key = <<"10">> -> 10
    [] OTHER -> -1

IsArrayIndex(key) == ArrayIndexOf(key) >= 0

RECURSIVE AscendingIndices(_)
AscendingIndices(entries) ==
  IF entries = {} THEN <<>>
  ELSE LET least == CHOOSE e \in entries :
                      \A f \in entries : ArrayIndexOf(e.key) <= ArrayIndexOf(f.key)
       IN <<least>> \o AscendingIndices(entries \ {least})

IndexProperty(entry) == IsArrayIndex(entry.key)
NamedProperty(entry) == ~IsArrayIndex(entry.key)
\* mutant of IsDefined: the empty string is dropped as well
IsDefinedNonEmpty(entry) == entry.value \notin {Undefined, Text(<<>>)}

IsDefined(entry) == entry.value # Undefined

ObjectEntries(params) ==
  AscendingIndices({ params[i] : i \in { j \in 1..Len(params) : IndexProperty(params[j]) } })
    \o SelectSeq(params, NamedProperty)

\* URLSearchParams.toString() of the appended pairs
RECURSIVE SearchParamsToString(_)
SearchParamsToString(pairs) ==
  IF Len(pairs) = 0 THEN <<>>
  ELSE LET pair == FormEncode(pairs[1].key) \o <<"=">> \o FormEncode(pairs[1].value)
       IN IF Len(pairs) = 1 THEN pair
          ELSE pair \o <<"&">> \o SearchParamsToString(Tail(pairs))

Appended(filtered) ==
  [i \in 1..Len(filtered) |-> [key |-> filtered[i].key, value |-> String(filtered[i].value)]]

\* mutants of formatQueryParams: one that keeps only truthy values, one that
\* writes the pairs in reverse
formatQueryParamsTruthy(params) ==
  LET filtered == SelectSeq(ObjectEntries(params),
                            LAMBDA entry : entry.value \notin
                              {Undefined, Text(<<>>), Num(0), Bool(FALSE)})
  IN IF Len(filtered) = 0 THEN <<>>
     ELSE <<"?">> \o SearchParamsToString(Appended(filtered))

formatQueryParamsReversed(params) ==
  LET filtered == SelectSeq(ObjectEntries(params), IsDefined)
      reversed == [i \in 1..Len(filtered) |-> filtered[Len(filtered) + 1 - i]]
  IN IF Len(filtered) = 0 THEN <<>>
     ELSE <<"?">> \o SearchParamsToString(Appended(reversed))

formatQueryParams(params) ==
  LET filtered == SelectSeq(ObjectEntries(params), IsDefined)
  IN IF Len(filtered) = 0 THEN <<>>
     ELSE <<"?">> \o SearchParamsToString(Appended(filtered))

----------------------------------------------------------------------------
(* Errors and outcomes                                                     *)

WhisperlyApiError(message, statusCode, details) ==
  [name |-> "WhisperlyApiError", message |-> message,
   statusCode |-> statusCode, details |-> details]

\* the built-in Error: a message and nothing else
Error(message) == [name |-> "Error", message |-> message]

Return(v) == [kind |-> "return", value |-> v]
Throw(e) == [kind |-> "throw", error |-> e]
NotRun == [kind |-> "none"]

----------------------------------------------------------------------------
(* handleNetworkResponse                                                   *)

\* mutants of handleNetworkResponse: one that never unwraps, one that unwraps
\* before it looks at the ok flag, one that insists on the envelope
handleNetworkResponseNoUnwrap(response) ==
  IF ~response.ok
  THEN Throw(WhisperlyApiError(<<"API request failed: ", response.statusText>>,
                               response.status, response.data))
  ELSE Return(response.data)

handleNetworkResponseUnwrapFirst(response) ==
  LET json == response.data
      payload == IF Truthy(json) /\ TypeofObject(json) /\ HasKey(json, "data")
                 THEN json.m["data"] ELSE json
  IN IF ~response.ok
     THEN Throw(WhisperlyApiError(<<"API request failed: ", response.statusText>>,
                                  response.status, payload))
     ELSE Return(payload)

handleNetworkResponseStrict(response) ==
  IF ~response.ok
  THEN Throw(WhisperlyApiError(<<"API request failed: ", response.statusText>>,
                               response.status, response.data))
  ELSE LET json == response.data
       IN IF Truthy(json) /\ TypeofObject(json) /\ HasKey(json, "data")
          THEN Return(json.m["data"])
          ELSE Throw(WhisperlyApiError(<<"Malformed response">>, response.status, json))

\* mutant of handleNetworkResponse: a second envelope is removed as well
handleNetworkResponseUnwrapTwice(response) ==
  IF ~response.ok
  THEN Throw(WhisperlyApiError(<<"API request failed: ", response.statusText>>,
                               response.status, response.data))
  ELSE LET json == response.data
           once == IF Truthy(json) /\ TypeofObject(json) /\ HasKey(json, "data")
                   THEN json.m["data"] ELSE json
       IN IF Truthy(once) /\ TypeofObject(once) /\ HasKey(once, "data")
          THEN Return(once.m["data"])
          ELSE Return(once)

handleNetworkResponse(response) ==
  IF ~response.ok
  THEN Throw(WhisperlyApiError(<<"API request failed: ", response.statusText>>,
                               response.status, response.data))
  ELSE LET json == response.data
       IN IF Truthy(json) /\ TypeofObject(json) /\ HasKey(json, "data")
          THEN Return(json.m["data"])
          ELSE Return(json)

NetworkResponses ==
  [ok : BOOLEAN, status : StatusCodes, statusText : StatusTexts, data : Bodies]

----------------------------------------------------------------------------
(* The transport: fetch and its Response                                   *)

\* a Response body: JSON text of a value, or text that is not JSON
JsonBody(v) == [t |-> "json", v |-> v]
RawBody(s) == [t |-> "raw", s |-> s]

\* Response.json(): the parsed value, or a SyntaxError
SyntaxError == [name |-> "SyntaxError", message |-> <<"Unexpected token">>]
ResponseJson(response) ==
  IF response.body.t = "json" THEN Return(response.body.v) ELSE Throw(SyntaxError)

\* Response.text(): the body as sent; the text of a JSON body stays a string
ResponseText(response) ==
  IF response.body.t = "raw" THEN Str(response.body.s)
  ELSE [t |-> "string", jsonOf |-> response.body.v]

\* fetch sets ok exactly for the statuses 200..299
FetchResponse(status, statusText, body) ==
  [ok |-> (status >= 200 /\ status <= 299), status |-> status,
   statusText |-> statusText, body |-> body]

StatusLines == { <<200, "OK">>, <<404, "Not Found">> }

FetchBodies ==
  { JsonBody(Wrapper(Obj([id |-> Str("1")]))), JsonBody(Obj([id |-> Str("1")])),
    RawBody("a,b") }

FetchResponses ==
  { FetchResponse(sl[1], sl[2], b) : sl \in StatusLines, b \in FetchBodies }

\* what a fetch that fails rejects with
TransportErrors ==
  { [name |-> "TypeError", message |-> <<"Failed to fetch">>] }

----------------------------------------------------------------------------
(* createAuthHeaders and handleApiResponse                                 *)

ContentTypeHeader == [name |-> "Content-Type", value |-> <<"application/json">>]
AuthorizationHeader(token) == [name |-> "Authorization", value |-> <<"Bearer ", token>>]

\* createAuthHeaders, from the point where getIdToken has resolved to `token`
createAuthHeaders(token) ==
  IF ~Truthy(token)
  THEN Throw(Error(<<"No authentication token available">>))
  ELSE Return({AuthorizationHeader(token.s), ContentTypeHeader})

\* handleApiResponse: the Response Normalizer over a fetch Response
handleApiResponse(response) ==
  IF ~response.ok
  THEN LET parsed == ResponseJson(response)
           details == IF parsed.kind = "return" THEN parsed.value
                      ELSE ResponseText(response)
       IN Throw(WhisperlyApiError(<<"API request failed: ", response.statusText>>,
                                  response.status, details))
  ELSE LET parsed == ResponseJson(response)
       IN IF parsed.kind = "throw" THEN parsed
          ELSE IF Truthy(parsed.value) /\ TypeofObject(parsed.value)
                  /\ HasKey(parsed.value, "data")
               THEN Return(parsed.value.m["data"])
               ELSE parsed

----------------------------------------------------------------------------
(* The WhisperlyClient classes                                             *)

\* the entity-centric class with the /api/v1 prefix
EntityMethods ==
  { "getProjects", "getProject", "createProject", "updateProject", "deleteProject",
    "generateProjectApiKey", "deleteProjectApiKey",
    "getDictionaries", "searchDictionary", "createDictionary", "updateDictionary",
    "deleteDictionary", "getProjectLanguages", "updateProjectLanguages",
    "getAvailableLanguages", "getSettings", "updateSettings", "getAnalytics",
    "getRateLimits", "getRateLimitHistory", "translate" }

\* the class with endpoints and glossaries
EndpointMethods ==
  { "getProjects", "getProject", "createProject", "updateProject", "deleteProject",
    "getEndpoints", "getEndpoint", "createEndpoint", "updateEndpoint", "deleteEndpoint",
    "getGlossaries", "getGlossary", "createGlossary", "updateGlossary", "deleteGlossary",
    "importGlossaries", "exportGlossaries",
    "getSettings", "updateSettings", "getAnalytics",
    "getRateLimits", "getRateLimitHistory", "translate" }

\* the class with the dictionary search
DictionaryMethods ==
  { "getProjects", "getProject", "createProject", "updateProject", "deleteProject",
    "searchDictionary", "createDictionary", "updateDictionary", "deleteDictionary",
    "getSettings", "updateSettings", "getAnalytics",
    "getRateLimits", "getRateLimitHistory", "translate" }

Revisions == {"entity", "endpoints", "dictionary"}

MethodsOf(rev) ==
  CASE rev = "entity" -> EntityMethods
    [] rev = "endpoints" -> EndpointMethods
    [] rev = "dictionary" -> DictionaryMethods

Methods == EntityMethods \cup EndpointMethods \cup DictionaryMethods

\* mutants of Authenticated: no method builds auth headers; every method does
AuthenticatedNone(method) == FALSE
AuthenticatedAll(method) == TRUE

\* the methods that begin with `await createAuthHeaders(this.getIdToken)`
Authenticated(method) == method # "translate"

\* the `method:` option passed to fetch
Verb(method) ==
  CASE method \in { "createProject", "generateProjectApiKey", "createDictionary",
                    "updateProjectLanguages", "createEndpoint", "createGlossary",
                    "importGlossaries", "translate" } -> "POST"
    [] method \in { "updateProject", "updateDictionary", "updateEndpoint",
                    "updateGlossary", "updateSettings" } -> "PUT"
    [] method \in { "deleteProject", "deleteProjectApiKey", "deleteDictionary",
                    "deleteEndpoint", "deleteGlossary" } -> "DELETE"
    [] OTHER -> "GET"

\* the methods that pass `body: JSON.stringify(...)`
HasBody(method) ==
  method \in { "createProject", "updateProject", "createDictionary", "updateDictionary",
               "updateProjectLanguages", "updateSettings", "createEndpoint",
               "updateEndpoint", "createGlossary", "updateGlossary",
               "importGlossaries", "translate" }

\* the options object a method hands to fetch
\* The arguments of a call.  Identifiers are one run of unreserved
\* characters; the optional ones are a JS value, undefined when left out.
DefaultArgs ==
  [entitySlug |-> <<"acme">>, projectId |-> <<"p1">>, resourceId |-> <<"r1">>,
   userId |-> <<"u1">>, periodType |-> <<"day">>,
   orgPath |-> <<"acme">>, projectName |-> <<"proj">>, endpointName |-> <<"ep">>,
   languageCode |-> <<"en">>, text |-> <<"hello">>,
   testMode |-> FALSE, apiKey |-> Undefined, format |-> Undefined,
   startDate |-> Undefined, endDate |-> Undefined, projectFilter |-> Undefined]

\* free text a caller may pass: plain, and with a slash, a question mark, a
\* hash sign or a space in it
FreeTexts ==
  { <<"en">>, <<"hello">>, <<"a", "/", "b">>, <<"x", "?", "y">>, <<"#", "x">>,
    <<"x", " ", "y">> }

ApiKeys == { Undefined, Text(<<>>), Text(<<"k1">>) }
Formats == { Undefined, Text(<<"json">>), Text(<<"csv">>) }
Dates == { Undefined, Text(<<"2024-01-01">>) }

\* the argument lists a method of a class can be called with
ArgsOf(rev, method) ==
  CASE method = "searchDictionary" ->
         { [DefaultArgs EXCEPT !.languageCode = l, !.text = t] : l \in FreeTexts, t \in FreeTexts }
    [] method = "translate" /\ rev = "entity" ->
         { [DefaultArgs EXCEPT !.testMode = m, !.apiKey = k] : m \in BOOLEAN, k \in ApiKeys }
    [] method = "exportGlossaries" ->
         { [DefaultArgs EXCEPT !.format = f] : f \in Formats }
    [] method = "getAnalytics" ->
         { [DefaultArgs EXCEPT !.startDate = a, !.endDate = b, !.projectFilter = f] :
             a \in Dates, b \in Dates, f \in {Undefined, Text(<<"p1">>)} }
    [] method \in {"getRateLimits", "getRateLimitHistory"} ->
         { [DefaultArgs EXCEPT !.testMode = m] : m \in BOOLEAN }
    [] method = "getProject" ->
         { [DefaultArgs EXCEPT !.projectId = p] : p \in { <<"p1">>, <<"p2">> } }
    [] OTHER -> { DefaultArgs }

apiPrefix == <<"/", "api", "/", "v1">>

\* the template string each method hands to url() or buildUrl()
Path(rev, method, args) ==
  LET entity == <<"/", "entities", "/">> \o args.entitySlug
      project == entity \o <<"/", "projects", "/">> \o args.projectId
      testModeParams ==
        IF args.testMode
        THEN formatQueryParams(<<[key |-> <<"testMode">>, value |-> Text(<<"true">>)]>>)
        ELSE <<>>
  IN CASE method \in {"getProjects", "createProject"} -> entity \o <<"/", "projects">>
       [] method \in {"getProject", "updateProject", "deleteProject"} -> project
       [] method \in {"generateProjectApiKey", "deleteProjectApiKey"} ->
            project \o <<"/", "api-key">>
       [] method \in {"getDictionaries", "createDictionary"} -> project \o <<"/", "dictionary">>
       [] method = "searchDictionary" ->
            project \o <<"/", "dictionary", "/", "search", "/">>
              \o encodeURIComponent(args.languageCode) \o <<"/">>
              \o encodeURIComponent(args.text)
       [] method \in {"updateDictionary", "deleteDictionary"} ->
            project \o <<"/", "dictionary", "/">> \o args.resourceId
       [] method \in {"getProjectLanguages", "updateProjectLanguages"} ->
            project \o <<"/", "languages">>
       [] method = "getAvailableLanguages" -> <<"/", "available-languages">>
       [] method \in {"getEndpoints", "createEndpoint"} -> project \o <<"/", "endpoints">>
       [] method \in {"getEndpoint", "updateEndpoint", "deleteEndpoint"} ->
            project \o <<"/", "endpoints", "/">> \o args.resourceId
       [] method \in {"getGlossaries", "createGlossary"} -> project \o <<"/", "glossaries">>
       [] method \in {"getGlossary", "updateGlossary", "deleteGlossary"} ->
            project \o <<"/", "glossaries", "/">> \o args.resourceId
       [] method = "importGlossaries" -> project \o <<"/", "glossaries", "/", "import">>
       [] method = "exportGlossaries" ->
            project \o <<"/", "glossaries", "/", "export">>
              \o formatQueryParams(<<[key |-> <<"format">>,
                                      value |-> IF args.format = Undefined
                                                THEN Text(<<"json">>) ELSE args.format]>>)
       [] method \in {"getSettings", "updateSettings"} ->
            <<"/", "users", "/">> \o args.userId \o <<"/", "settings">>
       [] method = "getAnalytics" ->
            entity \o <<"/", "analytics">>
              \o formatQueryParams(<<[key |-> <<"start_date">>, value |-> args.startDate],
                                     [key |-> <<"end_date">>, value |-> args.endDate],
                                     [key |-> <<"project_id">>, value |-> args.projectFilter]>>)
       [] method = "getRateLimits" ->
            <<"/", "ratelimits", "/">> \o args.entitySlug \o testModeParams
       [] method = "getRateLimitHistory" ->
            <<"/", "ratelimits", "/">> \o args.entitySlug \o <<"/", "history", "/">>
              \o args.periodType \o testModeParams
       [] method = "translate" ->
            LET translate == <<"/", "translate", "/">> \o args.orgPath \o <<"/">>
                               \o args.projectName
            IN CASE rev = "entity" ->
                      translate \o formatQueryParams(
                        <<[key |-> <<"testMode">>,
                           value |-> IF args.testMode THEN Text(<<"true">>) ELSE Undefined],
                          [key |-> <<"api_key">>, value |-> args.apiKey]>>)
                 [] rev = "endpoints" -> translate \o <<"/">> \o args.endpointName
                 [] rev = "dictionary" -> translate

\* mutant of url: the prefix is left out
urlWithoutPrefix(path) == buildUrl(baseUrl, path)

\* private url(path) of the entity-centric class
url(path) == buildUrl(baseUrl, apiPrefix \o path)

\* the first argument of fetch
RequestUrl(method, args) ==
  IF revision = "entity" THEN url(Path(revision, method, args))
  ELSE buildUrl(baseUrl, Path(revision, method, args))

\* mutant of RequestOf: every request is stamped with a running number
RequestOfNumbered(method, args, headers) ==
  [verb |-> Verb(method), url |-> RequestUrl(method, args),
   headers |-> headers \cup {[name |-> "X-Request-Id", value |-> <<NumeralOf(providerCalls)>>]},
   hasBody |-> HasBody(method)]

RequestOf(method, args, headers) ==
  [verb |-> Verb(method), url |-> RequestUrl(method, args), headers |-> headers,
   hasBody |-> HasBody(method)]

\* mutant of OwnFailureText: deleteDictionary copies deleteProject's pattern
OwnFailureTextDictionary(method) ==
  CASE method = "deleteProject" -> "Failed to delete project: "
    [] method = "deleteDictionary" -> "Failed to delete dictionary: "
    [] method = "deleteEndpoint" -> "Failed to delete endpoint: "
    [] method = "deleteGlossary" -> "Failed to delete glossary: "
    [] method = "exportGlossaries" -> "Failed to export glossaries: "
    [] OTHER -> ""

\* the methods that test response.ok themselves, and the text they throw with
OwnFailureText(method) ==
  CASE method = "deleteProject" -> "Failed to delete project: "
    [] method = "deleteEndpoint" -> "Failed to delete endpoint: "
    [] method = "deleteGlossary" -> "Failed to delete glossary: "
    [] method = "exportGlossaries" -> "Failed to export glossaries: "
    [] OTHER -> ""

\* mutants of Finish: every method returns what handleApiResponse returns;
\* exportGlossaries parses and unwraps the exported text
FinishNormalized(method, response) == handleApiResponse(response)

FinishExportParsed(method, response) ==
  IF OwnFailureText(method) # ""
  THEN IF ~response.ok
       THEN Throw(Error(<<OwnFailureText(method), response.statusText>>))
       ELSE IF method = "exportGlossaries"
            THEN handleApiResponse(response)
            ELSE Return(Undefined)
  ELSE handleApiResponse(response)

\* the statements of a method after `await fetch(...)` has resolved
Finish(method, response) ==
  IF OwnFailureText(method) # ""
  THEN IF ~response.ok
       THEN Throw(Error(<<OwnFailureText(method), response.statusText>>))
       ELSE IF method = "exportGlossaries"
            THEN Return(ResponseText(response))
            ELSE Return(Undefined)
  ELSE handleApiResponse(response)

----------------------------------------------------------------------------
(* Calls                                                                   *)

CallIds == 1..MaxCalls

Pending == [kind |-> "pending"]
Unused == [kind |-> "unused"]
Resolved(v) == [kind |-> "resolved", value |-> v]
Rejected(e) == [kind |-> "rejected", error |-> e]

NoRequest == [verb |-> "none"]

IdleCall ==
  [pc |-> "idle", method |-> "none",
   args |-> DefaultArgs,    \* the arguments the method was called with
   tokenCalls |-> 0,        \* invocations of getIdToken made by this call
   token |-> Unused,        \* the promise getIdToken returned to this call
   tokenIdx |-> 0,          \* which invocation of getIdToken that was
   fetches |-> 0,           \* invocations of fetch made by this call
   request |-> NoRequest,   \* the options of the last fetch
   transport |-> Unused,    \* the promise fetch returned to this call
   outcome |-> NotRun]      \* how the call's own promise settled

\* what getIdToken may settle to: a token, no token, or a failure
ProviderError == [name |-> "FirebaseError", message |-> <<"auth/network-request-failed">>]
ProviderResults ==
  { Resolved(Str("t1")), Resolved(Str("t2")), Resolved(Undefined), Rejected(ProviderError) }

BaseUrls == { <<"https://h">>, <<"https://h", "/">> }

\* the scripts of n provider results; tokens are named in order of first
\* appearance, so "t2" only follows a "t1"
RECURSIVE ProviderScripts(_)
ProviderScripts(n) ==
  IF n = 0 THEN { <<>> }
  ELSE { Append(q, x) : q \in ProviderScripts(n - 1), x \in ProviderResults }

CanonicalScript(q) ==
  \A i \in DOMAIN q :
    q[i] = Resolved(Str("t2")) => \E j \in 1..(i - 1) : q[j] = Resolved(Str("t1"))

\* a component that has not rendered its hook yet
NotRendered == [hook |-> "none", props |-> [client |-> "client"]]
ObserverIds == 1..MaxObservers

\* no hook rendered yet; useMutation before mutate() has status 'idle'
HooksIdle(rev) ==
  /\ hooksRevision = rev
  /\ observers = [o \in ObserverIds |-> NotRendered]
  /\ queries = <<>>
  /\ queryFnCalls = <<>>
  /\ mutation = [status |-> "idle", hook |-> "none", owner |-> 0,
                 props |-> [client |-> "client"], variables |-> [data |-> "data"],
                 started |-> 0]

NormalizerIdle ==
  /\ hResponse = [ok |-> TRUE, status |-> 200, statusText |-> "OK", data |-> Undefined]
  /\ hOutcome = NotRun

BuildUrlIdle ==
  /\ uArgs = [base |-> <<>>, path |-> <<>>, next |-> <<>>]
  /\ uResult = <<>>

FormatterIdle ==
  /\ qParams = <<>>
  /\ qResult = NotRun

HelperIdle == NormalizerIdle /\ BuildUrlIdle /\ FormatterIdle

ClientIdle ==
  /\ revision = "entity"
  /\ baseUrl = <<"https://h">>
  /\ getIdToken = <<>>
  /\ providerCalls = 0
  /\ calls = [c \in CallIds |-> IdleCall]

Init ==
  /\ revision \in Revisions
  /\ baseUrl \in BaseUrls
  /\ getIdToken \in { q \in ProviderScripts(MaxCalls) : CanonicalScript(q) }
  /\ providerCalls = 0
  /\ calls = [c \in CallIds |-> IdleCall]
  /\ HelperIdle
  /\ HooksIdle("refetch")

\* mutant of Call: the call stores the base address without its trailing slash
CallRebasing(c, method, args) ==
  /\ calls[c].pc = "idle"
  /\ method \in MethodsOf(revision)
  /\ args \in ArgsOf(revision, method)
  /\ IF Authenticated(method)
     THEN /\ providerCalls < Len(getIdToken)
          /\ providerCalls' = providerCalls + 1
          /\ calls' = [calls EXCEPT ![c] =
               [@ EXCEPT !.pc = "awaitToken", !.method = method, !.args = args,
                         !.tokenCalls = @ + 1, !.token = Pending,
                         !.tokenIdx = providerCalls + 1]]
     ELSE /\ providerCalls' = providerCalls
          /\ calls' = [calls EXCEPT ![c] =
               [@ EXCEPT !.pc = "awaitFetch", !.method = method, !.args = args,
                         !.fetches = @ + 1,
                         !.request = RequestOf(method, args, {ContentTypeHeader}),
                         !.transport = Pending]]
  /\ baseUrl' = IF EndsWith(baseUrl, "/") THEN SliceOffLast(baseUrl) ELSE baseUrl
  /\ UNCHANGED <<revision, getIdToken, helperVars, hookVars>>

\* a method is called: it runs up to its first await
Call(c, method, args) ==
  /\ calls[c].pc = "idle"
  /\ method \in MethodsOf(revision)
  /\ args \in ArgsOf(revision, method)
  /\ IF Authenticated(method)
     THEN /\ providerCalls < Len(getIdToken)
          /\ providerCalls' = providerCalls + 1
          /\ calls' = [calls EXCEPT ![c] =
               [@ EXCEPT !.pc = "awaitToken", !.method = method, !.args = args,
                         !.tokenCalls = @ + 1, !.token = Pending,
                         !.tokenIdx = providerCalls + 1]]
     ELSE /\ providerCalls' = providerCalls
          /\ calls' = [calls EXCEPT ![c] =
               [@ EXCEPT !.pc = "awaitFetch", !.method = method, !.args = args,
                         !.fetches = @ + 1,
                         !.request = RequestOf(method, args, {ContentTypeHeader}),
                         !.transport = Pending]]
  /\ UNCHANGED <<configVars, helperVars, hookVars>>

\* mutant of TokenSettles: without a token the request goes out anonymously
TokenSettlesAnonymous(c) ==
  /\ calls[c].pc = "awaitToken"
  /\ LET result == getIdToken[calls[c].tokenIdx]
         headers == IF result.kind = "resolved" THEN createAuthHeaders(result.value)
                    ELSE Throw(result.error)
     IN calls' = [calls EXCEPT ![c] =
               [@ EXCEPT !.pc = "awaitFetch", !.token = result,
                         !.fetches = @ + 1,
                         !.request = RequestOf(calls[c].method, calls[c].args,
                                               IF headers.kind = "throw"
                                               THEN {ContentTypeHeader}
                                               ELSE headers.value),
                         !.transport = Pending]]
  /\ UNCHANGED <<configVars, providerCalls, helperVars, hookVars>>

\* mutants of TokenSettles: the token is read from a field the calls share,
\* which holds the provider's latest result; the first token is kept and reused
TokenSettlesLatest(c) ==
  /\ calls[c].pc = "awaitToken"
  /\ LET result == getIdToken[providerCalls]
         headers == IF result.kind = "resolved" THEN createAuthHeaders(result.value)
                    ELSE Throw(result.error)
     IN IF headers.kind = "throw"
        THEN calls' = [calls EXCEPT ![c] =
               [@ EXCEPT !.pc = "done", !.token = result, !.outcome = headers]]
        ELSE calls' = [calls EXCEPT ![c] =
               [@ EXCEPT !.pc = "awaitFetch", !.token = result,
                         !.fetches = @ + 1,
                         !.request = RequestOf(calls[c].method, calls[c].args, headers.value),
                         !.transport = Pending]]
  /\ UNCHANGED <<configVars, providerCalls, helperVars, hookVars>>

TokenSettlesCached(c) ==
  /\ calls[c].pc = "awaitToken"
  /\ LET result == getIdToken[1]
         headers == IF result.kind = "resolved" THEN createAuthHeaders(result.value)
                    ELSE Throw(result.error)
     IN IF headers.kind = "throw"
        THEN calls' = [calls EXCEPT ![c] =
               [@ EXCEPT !.pc = "done", !.token = result, !.outcome = headers]]
        ELSE calls' = [calls EXCEPT ![c] =
               [@ EXCEPT !.pc = "awaitFetch", !.token = result,
                         !.fetches = @ + 1,
                         !.request = RequestOf(calls[c].method, calls[c].args, headers.value),
                         !.transport = Pending]]
  /\ UNCHANGED <<configVars, providerCalls, helperVars, hookVars>>

\* getIdToken's promise settles; createAuthHeaders finishes and the method
\* runs on to `await fetch(...)`, or rejects
TokenSettles(c) ==
  /\ calls[c].pc = "awaitToken"
  /\ LET result == getIdToken[calls[c].tokenIdx]
         headers == IF result.kind = "resolved" THEN createAuthHeaders(result.value)
                    ELSE Throw(result.error)
     IN IF headers.kind = "throw"
        THEN calls' = [calls EXCEPT ![c] =
               [@ EXCEPT !.pc = "done", !.token = result, !.outcome = headers]]
        ELSE calls' = [calls EXCEPT ![c] =
               [@ EXCEPT !.pc = "awaitFetch", !.token = result,
                         !.fetches = @ + 1,
                         !.request = RequestOf(calls[c].method, calls[c].args, headers.value),
                         !.transport = Pending]]
  /\ UNCHANGED <<configVars, providerCalls, helperVars, hookVars>>

\* mutant of FetchResolves: an unsuccessful response is retried once
FetchResolvesRetry(c, response) ==
  /\ calls[c].pc = "awaitFetch"
  /\ IF ~response.ok /\ calls[c].fetches < 2
     THEN calls' = [calls EXCEPT ![c] = [@ EXCEPT !.fetches = @ + 1]]
     ELSE calls' = [calls EXCEPT ![c] =
            [@ EXCEPT !.pc = "done", !.transport = Resolved(response),
                      !.outcome = Finish(calls[c].method, response)]]
  /\ UNCHANGED <<configVars, providerCalls, helperVars, hookVars>>

\* fetch resolves with a Response; the method finishes
FetchResolves(c, response) ==
  /\ calls[c].pc = "awaitFetch"
  /\ calls' = [calls EXCEPT ![c] =
       [@ EXCEPT !.pc = "done", !.transport = Resolved(response),
                 !.outcome = Finish(calls[c].method, response)]]
  /\ UNCHANGED <<configVars, providerCalls, helperVars, hookVars>>

\* mutants of FetchRejects: the call gives up on a fetch that has not settled;
\* the failure is caught and rethrown as the typed error
FetchRejectsTimeout(c, error) ==
  /\ calls[c].pc = "awaitFetch"
  /\ calls' = [calls EXCEPT ![c] =
       [@ EXCEPT !.pc = "done",
                 !.outcome = Throw([name |-> "AbortError", message |-> <<"timeout">>])]]
  /\ UNCHANGED <<configVars, providerCalls, helperVars, hookVars>>

FetchRejectsWrapped(c, error) ==
  /\ calls[c].pc = "awaitFetch"
  /\ calls' = [calls EXCEPT ![c] =
       [@ EXCEPT !.pc = "done", !.transport = Rejected(error),
                 !.outcome = Throw(WhisperlyApiError(<<"API request failed: ", "">>,
                                                     0, Undefined))]]
  /\ UNCHANGED <<configVars, providerCalls, helperVars, hookVars>>

\* fetch rejects; nothing catches it, so the method rejects with it
FetchRejects(c, error) ==
  /\ calls[c].pc = "awaitFetch"
  /\ calls' = [calls EXCEPT ![c] =
       [@ EXCEPT !.pc = "done", !.transport = Rejected(error),
                 !.outcome = Throw(error)]]
  /\ UNCHANGED <<configVars, providerCalls, helperVars, hookVars>>

Next ==
  \/ \E c \in CallIds, method \in Methods : Call(c, method, DefaultArgs)
  \/ \E c \in CallIds : TokenSettles(c)
  \/ \E c \in CallIds, response \in FetchResponses : FetchResolves(c, response)
  \/ \E c \in CallIds, error \in TransportErrors : FetchRejects(c, error)

Spec == Init /\ [][Next]_vars

----------------------------------------------------------------------------
(* One call of one method, with every argument list the method accepts     *)

NextRequest ==
  \/ \E method \in Methods : \E args \in ArgsOf(revision, method) : Call(1, method, args)
  \/ TokenSettles(1)
  \/ \E response \in FetchResponses : FetchResolves(1, response)
  \/ \E error \in TransportErrors : FetchRejects(1, error)

SpecRequest == Init /\ [][NextRequest]_vars

----------------------------------------------------------------------------
(* One call whose awaited promises do settle: a pending getIdToken promise *)
(* is eventually settled by the provider, a pending fetch promise by the   *)
(* transport                                                               *)

SpecSettling ==
  /\ Init /\ [][NextRequest]_vars
  /\ WF_vars(TokenSettles(1))
  /\ WF_vars(\/ \E response \in FetchResponses : FetchResolves(1, response)
             \/ \E error \in TransportErrors : FetchRejects(1, error))

----------------------------------------------------------------------------
(* Several calls in flight at once: one more call than Spec has, of an     *)
(* authenticated read with two argument lists and of the unauthenticated   *)
(* translate, so that every interleaving is explored                       *)

ConcurrentIds == 1..(MaxCalls + 1)

InitConcurrent ==
  /\ revision \in Revisions
  /\ baseUrl = <<"https://h", "/">>
  /\ getIdToken \in { q \in ProviderScripts(MaxCalls + 1) : CanonicalScript(q) }
  /\ providerCalls = 0
  /\ calls = [c \in ConcurrentIds |-> IdleCall]
  /\ HelperIdle
  /\ HooksIdle("refetch")

\* getProject for either project, translate with its required arguments
NextConcurrent ==
  \/ \E c \in ConcurrentIds :
       \/ \E args \in ArgsOf(revision, "getProject") : Call(c, "getProject", args)
       \/ Call(c, "translate", DefaultArgs)
  \/ \E c \in ConcurrentIds : TokenSettles(c)
  \/ \E c \in ConcurrentIds :
       \E response \in
           { FetchResponse(200, "OK", JsonBody(Wrapper(Obj([id |-> Str("1")])))),
             FetchResponse(404, "Not Found", JsonBody(Obj([id |-> Str("1")]))) } :
         FetchResolves(c, response)
  \/ \E c \in ConcurrentIds, error \in TransportErrors : FetchRejects(c, error)

SpecConcurrent == InitConcurrent /\ [][NextConcurrent]_vars

----------------------------------------------------------------------------
(* handleNetworkResponse applied to every response shape                   *)

InitHelper ==
  /\ ClientIdle
  /\ HooksIdle("refetch")
  /\ BuildUrlIdle
  /\ FormatterIdle
  /\ hResponse \in NetworkResponses
  /\ hOutcome = NotRun

ApplyHandleNetworkResponse ==
  /\ hOutcome = NotRun
  /\ hOutcome' = handleNetworkResponse(hResponse)
  /\ UNCHANGED <<clientVars, hookVars, hResponse, uArgs, uResult, qParams, qResult>>

NextHelper == ApplyHandleNetworkResponse

SpecHelper == InitHelper /\ [][NextHelper]_vars

----------------------------------------------------------------------------
(* buildUrl applied to every base and fragment, and to its own results     *)

UrlAlphabet == {"/", "h"}
UrlTexts == TextsUpTo(UrlAlphabet, MaxLen)

InitUrl ==
  /\ ClientIdle
  /\ HooksIdle("refetch")
  /\ NormalizerIdle
  /\ FormatterIdle
  /\ uArgs \in [base : UrlTexts, path : UrlTexts, next : UrlTexts]
  /\ uResult = <<>>

\* buildUrl(base, path)
JoinPath ==
  /\ Len(uResult) = 0
  /\ uResult' = <<buildUrl(uArgs.base, uArgs.path)>>
  /\ UNCHANGED <<clientVars, hookVars, hResponse, hOutcome, uArgs, qParams, qResult>>

\* buildUrl(buildUrl(base, path), next)
JoinNext ==
  /\ Len(uResult) = 1
  /\ uResult' = Append(uResult, buildUrl(uResult[1], uArgs.next))
  /\ UNCHANGED <<clientVars, hookVars, hResponse, hOutcome, uArgs, qParams, qResult>>

\* buildUrl(joined, ''), first on buildUrl(base, path) and then on its own result
RejoinEmpty ==
  /\ Len(uResult) \in {2, 3}
  /\ uResult' = Append(uResult, buildUrl(IF Len(uResult) = 2 THEN uResult[1]
                                         ELSE uResult[3], <<>>))
  /\ UNCHANGED <<clientVars, hookVars, hResponse, hOutcome, uArgs, qParams, qResult>>

NextUrl == JoinPath \/ JoinNext \/ RejoinEmpty

SpecUrl == InitUrl /\ [][NextUrl]_vars

----------------------------------------------------------------------------
(* formatQueryParams applied to every small mapping                        *)

QueryKeys == { <<"a">>, <<"b">>, <<"2">>, <<"10">> }
QueryValues ==
  { Undefined, Text(<<>>), Text(<<"x">>), Text(<<"x", " ", "y">>), Text(<<"x", "&", "y", "=">>),
    Num(0), Num(10), Bool(FALSE), Bool(TRUE) }

KeysIn(params) == { params[i].key : i \in 1..Len(params) }

\* the objects with n properties, each key held once
RECURSIVE ParamsOfLen(_)
ParamsOfLen(n) ==
  IF n = 0 THEN { <<>> }
  ELSE UNION { { Append(p, [key |-> k, value |-> v]) :
                   k \in QueryKeys \ KeysIn(p), v \in QueryValues } :
               p \in ParamsOfLen(n - 1) }

ParamsObjects(most) == UNION { ParamsOfLen(n) : n \in 0..most }

InitQuery ==
  /\ ClientIdle
  /\ HooksIdle("refetch")
  /\ NormalizerIdle
  /\ BuildUrlIdle
  /\ qParams \in ParamsObjects(MaxParams)
  /\ qResult = NotRun

ApplyFormatQueryParams ==
  /\ qResult = NotRun
  /\ qResult' = Return(formatQueryParams(qParams))
  /\ UNCHANGED <<clientVars, hookVars, hResponse, hOutcome, uArgs, uResult, qParams>>

NextQuery == ApplyFormatQueryParams

SpecQuery == InitQuery /\ [][NextQuery]_vars

TypeOK ==
  /\ revision \in Revisions
  /\ \A c \in CallIds : calls[c].pc \in {"idle", "awaitToken", "awaitFetch", "done"}

----------------------------------------------------------------------------
(* Properties                                                              *)

\* the call's fetch resolved with a Response whose ok flag is false
Unsuccessful(c) ==
  /\ calls[c].pc = "done"
  /\ calls[c].transport.kind = "resolved"
  /\ ~calls[c].transport.value.ok

\* the call's fetch resolved with a Response whose ok flag is true
Successful(c) ==
  /\ calls[c].pc = "done"
  /\ calls[c].transport.kind = "resolved"
  /\ calls[c].transport.value.ok

\* the details the typed error carries for a Response: its body, parsed
\* when it is JSON and as text otherwise
BodyOf(response) ==
  IF response.body.t = "json" THEN response.body.v ELSE Str(response.body.s)

\* C1: in every call of a method other than translate, fetch is invoked only
\* after getIdToken has resolved to a token; when getIdToken resolves to no
\* token the call rejects and fetch is invoked zero times during the call.
C1_AuthBeforeTransport ==
  \A c \in CallIds :
    calls[c].method \in Methods \ {"translate"} =>
      /\ calls[c].fetches > 0 =>
            /\ calls[c].token.kind = "resolved"
            /\ calls[c].token.value.t = "string"
      /\ calls[c].token = Resolved(Undefined) =>
            /\ calls[c].pc = "done"
            /\ calls[c].outcome.kind = "throw"
            /\ calls[c].fetches = 0
            /\ calls[c].transport = Unused

C1_Witness ==
  \E c \in CallIds :
    /\ calls[c].method = "getProjects"
    /\ calls[c].token = Resolved(Undefined)
    /\ calls[c].pc = "done"
    /\ calls[c].outcome.kind = "throw"

\* C2: whenever a call's transport result has a false success flag, the call
\* rejects with a WhisperlyApiError carrying the response status and the
\* response body as details.
C2_TypedErrorEveryMethod ==
  \A c \in CallIds :
    Unsuccessful(c) =>
      /\ calls[c].outcome.kind = "throw"
      /\ calls[c].outcome.error.name = "WhisperlyApiError"
      /\ calls[c].outcome.error =
           WhisperlyApiError(calls[c].outcome.error.message,
                             calls[c].transport.value.status,
                             BodyOf(calls[c].transport.value))

\* C3: deleteProject rejects, on an unsuccessful transport result, with the
\* WhisperlyApiError whose message is 'Failed to delete project: ' + status
\* text, whose statusCode is the status and whose details are the body; on a
\* successful result it resolves with no value.
C3_DeleteProjectTypedError ==
  \A c \in CallIds :
    calls[c].method = "deleteProject" =>
      /\ Unsuccessful(c) =>
            calls[c].outcome =
              Throw(WhisperlyApiError(
                      <<"Failed to delete project: ", calls[c].transport.value.statusText>>,
                      calls[c].transport.value.status,
                      BodyOf(calls[c].transport.value)))
      /\ Successful(c) => calls[c].outcome = Return(Undefined)

\* C4: given a response whose ok flag is true, handleNetworkResponse returns
\* body.data when the body is a non-null mapping with a key named data, and
\* the body itself otherwise.
C4_UnwrapOrPassThrough ==
  (hOutcome # NotRun /\ hResponse.ok) =>
    IF hResponse.data.t = "object" /\ "data" \in DOMAIN hResponse.data.m
    THEN hOutcome = Return(hResponse.data.m["data"])
    ELSE hOutcome = Return(hResponse.data)

C4_Witness ==
  /\ hOutcome # NotRun
  /\ hResponse.ok
  /\ hResponse.data = Wrapper(Obj([id |-> Num(1)]))
  /\ hOutcome = Return(Obj([id |-> Num(1)]))

\* C5: given a response whose ok flag is false, handleNetworkResponse returns
\* nothing and throws the WhisperlyApiError with message 'API request
\* failed: ' + status text, the response status, and the body unchanged.
C5_FailureThrowsTypedError ==
  (hOutcome # NotRun /\ ~hResponse.ok) =>
    hOutcome = Throw(WhisperlyApiError(<<"API request failed: ", hResponse.statusText>>,
                                       hResponse.status, hResponse.data))

C5_Witness ==
  /\ hOutcome.kind = "throw"
  /\ ~hResponse.ok
  /\ hResponse.status = 404
  /\ hResponse.data = Wrapper(Obj([error |-> Str("x")]))

C7_AtMostOneRequest ==
  \A c \in CallIds : calls[c].fetches <= 1

\* a call that rejected after an unsuccessful response, having fetched once
C7_Witness ==
  \E c \in CallIds :
    /\ Unsuccessful(c)
    /\ calls[c].outcome.kind = "throw"
    /\ calls[c].fetches = 1

\* C8: when fetch itself rejects, the call rejects with that same failure.
C8_TransportFailurePropagates ==
  \A c \in CallIds :
    (calls[c].pc = "done" /\ calls[c].transport.kind = "rejected") =>
      calls[c].outcome = Throw(calls[c].transport.error)

C8_Witness ==
  \E c \in CallIds :
    /\ calls[c].method = "getProject"
    /\ calls[c].pc = "done"
    /\ calls[c].transport.kind = "rejected"
    /\ calls[c].outcome.kind = "throw"

\* the methods whose failure text is their own
OwnTextMethods == {"deleteProject", "deleteEndpoint", "deleteGlossary", "exportGlossaries"}

\* C9 as stated: every method other than deleteProject fails, on an
\* unsuccessful transport result, with the message 'API request failed: ' +
\* status text.
C9_OnlyDeleteProjectBespoke ==
  \A c \in CallIds :
    (Unsuccessful(c) /\ calls[c].method # "deleteProject") =>
      /\ calls[c].outcome.kind = "throw"
      /\ calls[c].outcome.error.message =
           <<"API request failed: ", calls[c].transport.value.statusText>>

\* C9 amended: every method other than deleteProject, deleteEndpoint,
\* deleteGlossary and exportGlossaries fails with 'API request failed: ' +
\* status text; those four fail with a text of their own.
C9_UniformFailureText ==
  \A c \in CallIds :
    Unsuccessful(c) =>
      /\ calls[c].outcome.kind = "throw"
      /\ IF calls[c].method \in OwnTextMethods
         THEN /\ calls[c].outcome.error.message[1] # "API request failed: "
              /\ calls[c].outcome.error.message[2] = calls[c].transport.value.statusText
         ELSE calls[c].outcome.error.message =
                <<"API request failed: ", calls[c].transport.value.statusText>>

C9_Witness ==
  \E c \in CallIds :
    /\ Unsuccessful(c)
    /\ calls[c].method = "deleteDictionary"
    /\ calls[c].outcome.error.message = <<"API request failed: ", "Not Found">>

\* C10: given a response whose ok flag is true, handleNetworkResponse
\* returns and never throws, whatever the shape of the body.
C10_SuccessNeverThrows ==
  (hOutcome # NotRun /\ hResponse.ok) => hOutcome.kind = "return"

C10_Witness ==
  /\ hOutcome.kind = "return"
  /\ hResponse.ok
  /\ hResponse.data = Arr(<<>>)

RECURSIVE TrimLeft(_)
TrimLeft(text) == IF StartsWith(text, "/") THEN TrimLeft(Tail(text)) ELSE text
RECURSIVE TrimRight(_)
TrimRight(text) == IF EndsWith(text, "/") THEN TrimRight(SliceOffLast(text)) ELSE text

\* the two texts with exactly one slash between them
OneSlashJoin(left, right) == TrimRight(left) \o <<"/">> \o TrimLeft(right)

\* the number of places where two slashes are adjacent
DoubleSlashes(text) ==
  Cardinality({ i \in 1..(Len(text) - 1) : text[i] = "/" /\ text[i + 1] = "/" })

DoubledEnd(text) ==
  \/ Len(text) >= 2 /\ text[1] = "/" /\ text[2] = "/"
  \/ Len(text) >= 2 /\ text[Len(text)] = "/" /\ text[Len(text) - 1] = "/"

\* C13 as stated: for every base B and fragment P the four ways of writing
\* the slash give the same address.
C13_FourWayJoinAnyInput ==
  Len(uResult) >= 1 =>
    /\ uResult[1] = buildUrl(uArgs.base \o <<"/">>, uArgs.path)
    /\ uResult[1] = buildUrl(uArgs.base, <<"/">> \o uArgs.path)
    /\ uResult[1] = buildUrl(uArgs.base \o <<"/">>, <<"/">> \o uArgs.path)

\* C13 amended: for every base B that does not end with a slash and every
\* fragment P that does not start with one, buildUrl(B,P), buildUrl(B+'/',P),
\* buildUrl(B,'/'+P) and buildUrl(B+'/','/'+P) are all B + '/' + P.
C13_FourWayJoin ==
  (Len(uResult) >= 1 /\ ~EndsWith(uArgs.base, "/") /\ ~StartsWith(uArgs.path, "/")) =>
    /\ uResult[1] = uArgs.base \o <<"/">> \o uArgs.path
    /\ uResult[1] = buildUrl(uArgs.base \o <<"/">>, uArgs.path)
    /\ uResult[1] = buildUrl(uArgs.base, <<"/">> \o uArgs.path)
    /\ uResult[1] = buildUrl(uArgs.base \o <<"/">>, <<"/">> \o uArgs.path)

C13_Witness ==
  /\ uArgs.base = <<"h">>
  /\ uArgs.path = <<"h", "h">>
  /\ Len(uResult) >= 1
  /\ uResult[1] = <<"h", "/", "h", "h">>

\* C14 as stated: for every base B and fragments P and Q, the second join has
\* exactly one slash at each of the two join points, and re-joining with the
\* empty fragment is stable.
C14_ComposedJoinAnyInput ==
  /\ Len(uResult) >= 2 =>
       uResult[2] = OneSlashJoin(OneSlashJoin(uArgs.base, uArgs.path), uArgs.next)
  /\ Len(uResult) = 4 => uResult[4] = uResult[3]

\* C14 amended: joining never adds a pair of adjacent slashes to those its
\* inputs have; when none of B, P and Q begins or ends with a doubled slash,
\* buildUrl(buildUrl(B,P),Q) has exactly one slash at each join point; and
\* re-joining with the empty fragment is stable for every B and P.
C14_ComposedJoin ==
  /\ Len(uResult) >= 2 =>
       /\ DoubleSlashes(uResult[2]) <=
            DoubleSlashes(uArgs.base) + DoubleSlashes(uArgs.path) + DoubleSlashes(uArgs.next)
       /\ (~DoubledEnd(uArgs.base) /\ ~DoubledEnd(uArgs.path) /\ ~DoubledEnd(uArgs.next)) =>
            uResult[2] = OneSlashJoin(OneSlashJoin(uArgs.base, uArgs.path), uArgs.next)
  /\ Len(uResult) = 4 => uResult[4] = uResult[3]

C14_Witness ==
  /\ uArgs = [base |-> <<"h", "/">>, path |-> <<"/", "h", "/">>, next |-> <<"/", "h">>]
  /\ Len(uResult) = 4
  /\ uResult[2] = <<"h", "/", "h", "/", "h">>
  /\ uResult[4] = <<"h", "/", "h", "/">>

\* the pieces of a text between the occurrences of a separator
RECURSIVE Split(_, _)
Split(text, sep) ==
  IF \A i \in 1..Len(text) : text[i] # sep THEN <<text>>
  ELSE LET at == CHOOSE i \in 1..Len(text) :
                   text[i] = sep /\ \A j \in 1..(i - 1) : text[j] # sep
       IN <<SubSeq(text, 1, at - 1)>> \o Split(SubSeq(text, at + 1, Len(text)), sep)

\* the key=value pairs written in a query string that starts with "?"
PairsOf(query) ==
  LET parts == Split(Tail(query), "&")
  IN [i \in 1..Len(parts) |-> Split(parts[i], "=")]

KeysOf(query) == [i \in 1..Len(PairsOf(query)) |-> PairsOf(query)[i][1]]

DefinedKeys(params) == { params[i].key : i \in { j \in 1..Len(params) : IsDefined(params[j]) } }

InsertedAt(params, key) == CHOOSE i \in 1..Len(params) : params[i].key = key

\* C15: formatQueryParams returns '' when no key has a defined value, and
\* otherwise '?' followed by one key=value pair, joined by '&', for exactly
\* the keys whose value is not undefined; '', 0 and false are written.
C15_DefinedKeysOnly ==
  qResult # NotRun =>
    LET query == qResult.value
    IN IF DefinedKeys(qParams) = {} THEN query = <<>>
       ELSE /\ Len(query) > 0 /\ query[1] = "?"
            /\ Len(PairsOf(query)) = Cardinality(DefinedKeys(qParams))
            /\ \A i \in 1..Len(PairsOf(query)) : Len(PairsOf(query)[i]) = 2
            /\ { KeysOf(query)[i] : i \in 1..Len(KeysOf(query)) } = DefinedKeys(qParams)
            /\ \A i \in 1..Len(qParams) :
                 qParams[i].value \in {Text(<<>>), Num(0), Bool(FALSE)} =>
                   \E j \in 1..Len(PairsOf(query)) :
                     PairsOf(query)[j] =
                       <<qParams[i].key,
                         CASE qParams[i].value = Text(<<>>) -> <<>>
                           [] qParams[i].value = Num(0) -> <<"0">>
                           [] OTHER -> <<"false">> >>

C15_Witness ==
  /\ qParams = << [key |-> <<"a">>, value |-> Undefined], [key |-> <<"b">>, value |-> Text(<<>>)] >>
  /\ qResult = Return(<<"?", "b", "=">>)

\* C16 as stated: for every mapping the pairs appear in the order in which
\* their keys were inserted.
C16_InsertionOrderAnyMapping ==
  qResult # NotRun /\ DefinedKeys(qParams) # {} =>
    LET keys == KeysOf(qResult.value)
    IN \A i, j \in 1..Len(keys) :
         i < j => InsertedAt(qParams, keys[i]) < InsertedAt(qParams, keys[j])

\* C16 amended: the pairs whose keys are not array indices appear in the
\* order in which their keys were inserted; pairs whose keys are array
\* indices come before them, in ascending numeric order.
C16_InsertionOrder ==
  qResult # NotRun /\ DefinedKeys(qParams) # {} =>
    LET keys == KeysOf(qResult.value)
    IN \A i, j \in 1..Len(keys) :
         i < j =>
           /\ (~IsArrayIndex(keys[i]) /\ ~IsArrayIndex(keys[j])) =>
                InsertedAt(qParams, keys[i]) < InsertedAt(qParams, keys[j])
           /\ IsArrayIndex(keys[j]) =>
                IsArrayIndex(keys[i]) /\ ArrayIndexOf(keys[i]) < ArrayIndexOf(keys[j])

C16_Witness ==
  /\ qParams = << [key |-> <<"b">>, value |-> Text(<<"x">>)], [key |-> <<"a">>, value |-> Bool(TRUE)] >>
  /\ qResult = Return(<<"?", "b", "=", "x", "&", "a", "=", "true">>)

\* the configured base address without its trailing slash
CleanBase == IF EndsWith(baseUrl, "/") THEN SliceOffLast(baseUrl) ELSE baseUrl

Has(text, ch) == \E i \in 1..Len(text) : text[i] = ch

\* the query string of an address, from its "?" on; '' when it has none
QueryOf(address) ==
  IF ~Has(address, "?") THEN <<>>
  ELSE LET at == CHOOSE i \in 1..Len(address) :
                   address[i] = "?" /\ \A j \in 1..(i - 1) : address[j] # "?"
       IN SubSeq(address, at, Len(address))

\* the address without the configured base: prefix, resource path and query
AfterBase(address) == SubSeq(address, Len(CleanBase) + 1, Len(address))

\* the payload the response normalizer hands back for a JSON body
Unwrapped(body) == IF HasKey(body, "data") THEN body.m["data"] ELSE body

C12_TranslateQuery ==
  \A c \in CallIds :
    (calls[c].method = "translate" /\ calls[c].fetches > 0) =>
      LET query == QueryOf(calls[c].request.url)
          pairs == IF query = <<>> THEN <<>> ELSE PairsOf(query)
          written == { pairs[i] : i \in 1..Len(pairs) }
          args == calls[c].args
      IN /\ (<< <<"testMode">>, <<"true">> >> \in written) <=> args.testMode
         /\ (\E pair \in written : pair[1] = <<"testMode">>) => args.testMode
         /\ (\E pair \in written : pair[1] = <<"api_key">>) <=> (args.apiKey # Undefined)
         /\ args.apiKey # Undefined =>
              << <<"api_key">>, FormEncode(args.apiKey.chars) >> \in written
         /\ (~args.testMode /\ args.apiKey = Undefined) => ~Has(calls[c].request.url, "?")
         /\ Len(pairs) = Cardinality(written)
         /\ Len(pairs) = (IF args.testMode THEN 1 ELSE 0)
                           + (IF args.apiKey # Undefined THEN 1 ELSE 0)

C12_Witness ==
  /\ calls[1].method = "translate"
  /\ calls[1].args.testMode
  /\ calls[1].args.apiKey = Text(<<>>)
  /\ calls[1].fetches = 1
  /\ QueryOf(calls[1].request.url) = <<"?", "testMode", "=", "true", "&", "api_key", "=">>

\* C17: createAuthHeaders invokes the credential provider exactly once per
\* invocation; when the provider resolves to a token t it returns exactly
\* the two headers Authorization = 'Bearer ' + t and Content-Type =
\* 'application/json'; when the provider resolves to no token it rejects
\* with the error 'No authentication token available'.
C17_AuthHeaders ==
  \A c \in CallIds :
    (Authenticated(calls[c].method) /\ calls[c].pc # "idle") =>
      /\ calls[c].tokenCalls = 1
      /\ (calls[c].token.kind = "resolved" /\ calls[c].token.value # Undefined) =>
           /\ calls[c].request.headers =
                { [name |-> "Authorization", value |-> <<"Bearer ", calls[c].token.value.s>>],
                  [name |-> "Content-Type", value |-> <<"application/json">>] }
           /\ Cardinality(calls[c].request.headers) = 2
      /\ calls[c].token = Resolved(Undefined) =>
           /\ calls[c].outcome = Throw(Error(<<"No authentication token available">>))
           /\ calls[c].fetches = 0

C17_Witness ==
  /\ Authenticated(calls[1].method)
  /\ calls[1].token = Resolved(Str("t1"))
  /\ calls[1].tokenCalls = 1
  /\ calls[1].pc = "awaitFetch"
  /\ [name |-> "Authorization", value |-> <<"Bearer ", "t1">>] \in calls[1].request.headers

\* what a URL parser reads back from a percent-encoded character
decodeURIComponentChar(ch) ==
  CASE ch = "%20" -> " "
    [] ch = "%2B" -> "+"
    [] ch = "%26" -> "&"
    [] ch = "%3D" -> "="
    [] ch = "%2F" -> "/"
    [] ch = "%3F" -> "?"
    [] ch = "%23" -> "#"
    [] ch = "%3A" -> ":"
    [] OTHER -> ch

decodeURIComponent(text) == [i \in 1..Len(text) |-> decodeURIComponentChar(text[i])]

\* the segments of an address's path, after the configured base
SegmentsOf(address) == Tail(Split(AfterBase(address), "/"))

\* C18: searchDictionary percent-encodes the language code and the search
\* text before inserting them into the path: for any values, with '/', '?',
\* '#' or spaces in them, the request path keeps the same number of
\* segments and gains no query string or fragment.
C18_SearchPathWellFormed ==
  \A c \in CallIds :
    (calls[c].method = "searchDictionary" /\ calls[c].fetches > 0) =>
      LET address == calls[c].request.url
          segments == SegmentsOf(address)
          plain == SegmentsOf(RequestUrl("searchDictionary", DefaultArgs))
      IN /\ Len(segments) = Len(plain)
         /\ SubSeq(segments, 1, Len(plain) - 2) = SubSeq(plain, 1, Len(plain) - 2)
         /\ ~Has(address, "?") /\ ~Has(address, "#") /\ ~Has(address, " ")
         /\ decodeURIComponent(segments[Len(segments) - 1]) = calls[c].args.languageCode
         /\ decodeURIComponent(segments[Len(segments)]) = calls[c].args.text

C18_Witness ==
  /\ calls[1].method = "searchDictionary"
  /\ calls[1].args.languageCode = <<"a", "/", "b">>
  /\ calls[1].args.text = <<"x", "?", "y">>
  /\ calls[1].fetches = 1
  /\ AfterBase(calls[1].request.url) =
       (IF revision = "entity" THEN <<"/", "api", "/", "v1">> ELSE <<>>)
         \o <<"/", "entities", "/", "acme", "/", "projects", "/", "p1", "/", "dictionary",
              "/", "search", "/", "a", "%2F", "b", "/", "x", "%3F", "y">>

\* C19: deleteDictionary and deleteProjectApiKey resolve to the unwrapped
\* payload of the response (the deleted or updated record), whereas
\* deleteProject resolves to no value regardless of the response body.
C19_DeleteResultShapes ==
  \A c \in CallIds :
    Successful(c) =>
      /\ (calls[c].method \in {"deleteDictionary", "deleteProjectApiKey"}
            /\ calls[c].transport.value.body.t = "json") =>
           calls[c].outcome = Return(Unwrapped(calls[c].transport.value.body.v))
      /\ calls[c].method = "deleteProject" => calls[c].outcome = Return(Undefined)

C19_Witness ==
  /\ calls[1].method = "deleteDictionary"
  /\ Successful(1)
  /\ calls[1].transport.value.body = JsonBody(Wrapper(Obj([id |-> Str("1")])))
  /\ calls[1].outcome = Return(Obj([id |-> Str("1")]))

\* C20: exportGlossaries issues GET .../glossaries/export?format=<f>, f
\* defaulting to json, and on success resolves to the response's raw text
\* unchanged: the text is never unwrapped, even when it is a JSON object
\* with a data key.
C20_ExportRawText ==
  \A c \in CallIds :
    (calls[c].method = "exportGlossaries" /\ calls[c].fetches > 0) =>
      LET address == calls[c].request.url
          format == IF calls[c].args.format = Undefined THEN <<"json">>
                    ELSE calls[c].args.format.chars
          tail == <<"/", "glossaries", "/", "export", "?", "format", "=">> \o format
      IN /\ calls[c].request.verb = "GET"
         /\ SubSeq(address, Len(address) - Len(tail) + 1, Len(address)) = tail
         /\ Successful(c) =>
              /\ calls[c].outcome.kind = "return"
              /\ calls[c].outcome.value.t = "string"
              /\ calls[c].transport.value.body.t = "raw" =>
                   calls[c].outcome.value = Str(calls[c].transport.value.body.s)
              /\ calls[c].transport.value.body.t = "json" =>
                   calls[c].outcome.value =
                     [t |-> "string", jsonOf |-> calls[c].transport.value.body.v]

C20_Witness ==
  /\ calls[1].method = "exportGlossaries"
  /\ calls[1].args.format = Undefined
  /\ Successful(1)
  /\ QueryOf(calls[1].request.url) = <<"?", "format", "=", "json">>
  /\ calls[1].transport.value.body = JsonBody(Wrapper(Obj([id |-> Str("1")])))
  /\ calls[1].outcome =
       Return([t |-> "string", jsonOf |-> Wrapper(Obj([id |-> Str("1")]))])

\* C21: for any interleaving of concurrently issued calls, each call's
\* request and result depend only on that call's own arguments, the token
\* resolved for that call and the transport response to that call; no call
\* observes another call's token, request or response.
C21_CallsIndependent ==
  \A c \in DOMAIN calls :
    LET call == calls[c]
    IN /\ call.token.kind \in {"resolved", "rejected"} =>
            /\ call.token = getIdToken[call.tokenIdx]
            /\ \A d \in DOMAIN calls \ {c} : calls[d].tokenIdx # call.tokenIdx
       /\ call.fetches > 0 =>
            /\ call.request.verb = Verb(call.method)
            /\ call.request.hasBody = HasBody(call.method)
            /\ AfterBase(call.request.url) =
                 (IF revision = "entity" THEN apiPrefix ELSE <<>>)
                   \o Path(revision, call.method, call.args)
            /\ call.request.headers =
                 IF call.method = "translate" THEN {ContentTypeHeader}
                 ELSE {AuthorizationHeader(getIdToken[call.tokenIdx].value.s),
                       ContentTypeHeader}
       /\ (call.pc = "done" /\ call.transport.kind = "resolved") =>
            call.outcome = Finish(call.method, call.transport.value)
       /\ (call.pc = "done" /\ call.transport.kind = "rejected") =>
            call.outcome = Throw(call.transport.error)

C21_Witness ==
  /\ revision = "entity"
  /\ calls[1].pc = "done" /\ calls[2].pc = "done"
  /\ calls[1].method = "getProject" /\ calls[2].method = "getProject"
  /\ calls[1].args.projectId = <<"p1">> /\ calls[2].args.projectId = <<"p2">>
  /\ calls[1].tokenIdx = 2 /\ calls[2].tokenIdx = 1
  /\ calls[1].token = Resolved(Str("t2")) /\ calls[2].token = Resolved(Str("t1"))
  /\ Successful(1) /\ Unsuccessful(2)
  /\ calls[1].outcome.kind = "return" /\ calls[2].outcome.kind = "throw"

\* C22: after construction no method call, successful, failed or concurrent
\* with others, changes the client's base address, credential provider or
\* API prefix.
C22_ClientImmutable ==
  [][baseUrl' = baseUrl /\ getIdToken' = getIdToken /\ revision' = revision]_vars

C22_Witness ==
  /\ baseUrl = <<"https://h", "/">>
  /\ calls[1].pc = "done" /\ calls[2].pc = "done"
  /\ Successful(1)
  /\ calls[2].outcome.kind = "throw"
  /\ calls[2].request # NoRequest
  /\ calls[1].request.url[2] = "/" /\ calls[2].request.url[2] = "/"

\* C24: calling a read-only method twice with identical arguments, with the
\* credential provider resolving to the same token and the transport
\* returning the same response, issues two identical requests and yields
\* identical results.
C24_ReadsRepeatable ==
  \A c, d \in DOMAIN calls :
    ( /\ calls[c].pc = "done" /\ calls[d].pc = "done"
      /\ calls[c].method = calls[d].method
      /\ Verb(calls[c].method) = "GET"
      /\ calls[c].args = calls[d].args
      /\ calls[c].token = calls[d].token
      /\ calls[c].transport = calls[d].transport ) =>
        /\ calls[c].request = calls[d].request
        /\ calls[c].outcome = calls[d].outcome

C24_Witness ==
  /\ calls[1].pc = "done" /\ calls[2].pc = "done"
  /\ calls[1].method = "getProject" /\ calls[2].method = "getProject"
  /\ calls[1].args = calls[2].args
  /\ calls[1].token = Resolved(Str("t1")) /\ calls[2].token = Resolved(Str("t1"))
  /\ calls[1].tokenIdx # calls[2].tokenIdx
  /\ Successful(1) /\ calls[1].transport = calls[2].transport
  /\ calls[1].request = calls[2].request
  /\ calls[1].outcome = calls[2].outcome

\* C28: each authenticated call resolves the credential provider anew and
\* sends the token resolved during that same call; when the provider yields
\* t1 and then t2 across two calls, the second request carries 'Bearer t2'.
C28_TokenNeverReused ==
  /\ providerCalls = Cardinality({ c \in DOMAIN calls : calls[c].tokenCalls > 0 })
  /\ \A c \in DOMAIN calls :
       (calls[c].method \notin {"none", "translate"}) =>
         /\ calls[c].tokenCalls = 1
         /\ calls[c].fetches > 0 =>
              LET own == getIdToken[calls[c].tokenIdx]
              IN /\ own.kind = "resolved"
                 /\ own.value # Undefined
                 /\ \E header \in calls[c].request.headers :
                      /\ header.name = "Authorization"
                      /\ header.value = <<"Bearer ", own.value.s>>
         /\ (calls[c].fetches > 0 /\ calls[c].tokenIdx = 2
               /\ getIdToken[1] = Resolved(Str("t1")) /\ getIdToken[2] = Resolved(Str("t2"))) =>
              [name |-> "Authorization", value |-> <<"Bearer ", "t2">>]
                \in calls[c].request.headers

C28_Witness ==
  /\ getIdToken[1] = Resolved(Str("t1")) /\ getIdToken[2] = Resolved(Str("t2"))
  /\ calls[1].pc = "done" /\ calls[1].tokenIdx = 1
  /\ calls[2].pc = "awaitFetch" /\ calls[2].tokenIdx = 2
  /\ [name |-> "Authorization", value |-> <<"Bearer ", "t1">>] \in calls[1].request.headers
  /\ calls[2].request.headers =
       {[name |-> "Authorization", value |-> <<"Bearer ", "t2">>], ContentTypeHeader}

\* C23: a call settles whenever the credential provider and the transport
\* call it awaits both settle, and it leaves `await fetch` only when the
\* transport call settles: the client adds no timeout.
C23_SettlesWithAwaited ==
  /\ [](\A c \in CallIds :
          /\ calls[c].transport.kind \in {"resolved", "rejected"} =>
               calls[c].pc = "done"
          /\ calls[c].pc = "done" =>
               \/ calls[c].transport.kind \in {"resolved", "rejected"}
               \/ /\ calls[c].token.kind \in {"resolved", "rejected"}
                  /\ calls[c].transport = Unused)
  /\ [][\A c \in CallIds :
          (calls[c].pc = "awaitFetch" /\ calls'[c].pc # "awaitFetch") =>
            calls'[c].transport.kind \in {"resolved", "rejected"}]_vars
  /\ \A c \in CallIds : (calls[c].pc # "idle") ~> (calls[c].pc = "done")

C23_Witness ==
  /\ calls[1].pc = "done"
  /\ calls[1].token = Resolved(Str("t1"))
  /\ calls[1].transport.kind = "rejected"
  /\ calls[1].outcome = Throw(calls[1].transport.error)

\* how many objects with a field named data are nested at the top of a value
RECURSIVE Layers(_)
Layers(v) ==
  IF v.t = "object" /\ "data" \in DOMAIN v.m THEN 1 + Layers(v.m["data"]) ELSE 0

\* C29: handleNetworkResponse removes exactly one level of envelope: a
\* successful body {data: {data: X}} yields {data: X}, not X, and a
\* successful payload that itself has a field named data is returned as
\* that field's value rather than as the whole payload.
C29_OneLevelOnly ==
  (hOutcome # NotRun /\ hResponse.ok) =>
    /\ hOutcome.kind = "return"
    /\ Layers(hResponse.data) >= 1 =>
         /\ Layers(hOutcome.value) = Layers(hResponse.data) - 1
         /\ hOutcome.value # hResponse.data
         /\ hOutcome.value = hResponse.data.m["data"]
    /\ Layers(hResponse.data) >= 2 =>
         /\ hOutcome.value.t = "object"
         /\ "data" \in DOMAIN hOutcome.value.m
         /\ hOutcome.value # hResponse.data.m["data"].m["data"]

C29_Witness ==
  /\ hResponse.ok
  /\ hResponse.data = Wrapper(Wrapper(Obj([id |-> Num(1)])))
  /\ hOutcome = Return(Wrapper(Obj([id |-> Num(1)])))

----------------------------------------------------------------------------
(* The React hooks: src/hooks/*.ts (queries that refetch themselves after  *)
(* a mutation) and the older hooks that invalidate cache keys instead.     *)
(* useQuery, useMutation and the query cache belong to TanStack Query and  *)
(* are modelled by what the hooks rely on: a query is fetched on render    *)
(* only while `enabled` holds, refetch() runs the query function whatever  *)
(* `enabled` says, onSuccess runs only after the mutation function         *)
(* resolved, and invalidateQueries matches query keys element by element.  *)

\* mutant of QUERY_KEYS: two resource families share one value
QUERY_KEYS_Duplicated(rev) ==
  IF rev = "refetch"
  THEN [ projects           |-> <<"whisperly-", "projects">>,
         project            |-> <<"whisperly-", "project">>,
         dictionary         |-> <<"whisperly-", "dictionary">>,
         dictionarySearch   |-> <<"whisperly-", "dictionary">>,
         projectLanguages   |-> <<"whisperly-", "project-languages">>,
         availableLanguages |-> <<"whisperly-", "available-languages">>,
         settings           |-> <<"whisperly-", "settings">>,
         analytics          |-> <<"whisperly-", "analytics">>,
         subscription       |-> <<"whisperly-", "subscription">>,
         translate          |-> <<"whisperly-", "translate">>,
         rateLimits         |-> <<"whisperly-", "rate-limits">> ]
  ELSE [ projects     |-> <<"whisperly-", "projects">>,
         project      |-> <<"whisperly-", "project">>,
         endpoints    |-> <<"whisperly-", "endpoints">>,
         endpoint     |-> <<"whisperly-", "endpoint">>,
         glossaries   |-> <<"whisperly-", "glossaries">>,
         glossary     |-> <<"whisperly-", "glossaries">>,
         settings     |-> <<"whisperly-", "settings">>,
         analytics    |-> <<"whisperly-", "analytics">>,
         subscription |-> <<"whisperly-", "subscription">>,
         translate    |-> <<"whisperly-", "translate">>,
         rateLimits   |-> <<"whisperly-", "rate-limits">> ]

\* the QUERY_KEYS constant of either generation, each value as the pieces
\* 'whisperly-' and the rest
QUERY_KEYS(rev) ==
  IF rev = "refetch"
  THEN [ projects           |-> <<"whisperly-", "projects">>,
         project            |-> <<"whisperly-", "project">>,
         dictionary         |-> <<"whisperly-", "dictionary">>,
         dictionarySearch   |-> <<"whisperly-", "dictionary-search">>,
         projectLanguages   |-> <<"whisperly-", "project-languages">>,
         availableLanguages |-> <<"whisperly-", "available-languages">>,
         settings           |-> <<"whisperly-", "settings">>,
         analytics          |-> <<"whisperly-", "analytics">>,
         subscription       |-> <<"whisperly-", "subscription">>,
         translate          |-> <<"whisperly-", "translate">>,
         rateLimits         |-> <<"whisperly-", "rate-limits">> ]
  ELSE [ projects     |-> <<"whisperly-", "projects">>,
         project      |-> <<"whisperly-", "project">>,
         endpoints    |-> <<"whisperly-", "endpoints">>,
         endpoint     |-> <<"whisperly-", "endpoint">>,
         glossaries   |-> <<"whisperly-", "glossaries">>,
         glossary     |-> <<"whisperly-", "glossary">>,
         settings     |-> <<"whisperly-", "settings">>,
         analytics    |-> <<"whisperly-", "analytics">>,
         subscription |-> <<"whisperly-", "subscription">>,
         translate    |-> <<"whisperly-", "translate">>,
         rateLimits   |-> <<"whisperly-", "rate-limits">> ]

\* the hooks that call useQuery
QueryHooks(rev) ==
  IF rev = "refetch"
  THEN { "useProjects", "useProject", "useDictionaries", "useSearchDictionary",
         "useProjectLanguages", "useSettings", "useAnalytics" }
  ELSE { "useProjects", "useProject", "useEndpoints", "useEndpoint",
         "useGlossaries", "useGlossary" }

\* the QUERY_KEYS field a hook's queryKey starts with
KeyField(rev, hook) ==
  CASE hook = "useProjects" -> "projects"
    [] hook = "useProject" -> "project"
    [] hook = "useDictionaries" -> "dictionary"
    [] hook = "useSearchDictionary" -> "dictionarySearch"
    [] hook = "useProjectLanguages" -> "projectLanguages"
    [] hook = "useSettings" -> "settings"
    [] hook = "useAnalytics" -> "analytics"
    [] hook = "useEndpoints" -> "endpoints"
    [] hook = "useEndpoint" -> "endpoint"
    [] hook = "useGlossaries" -> "glossaries"
    [] hook = "useGlossary" -> "glossary"

\* the arguments of a hook that follow it in the queryKey, in order
KeyArgs(rev, hook) ==
  CASE hook = "useProjects" ->
         IF rev = "refetch" THEN <<"entitySlug">> ELSE <<>>
    [] hook = "useProject" ->
         IF rev = "refetch" THEN <<"entitySlug", "projectId">> ELSE <<"projectId">>
    [] hook \in {"useDictionaries", "useProjectLanguages", "useEndpoints",
                 "useGlossaries"} -> <<"entitySlug", "projectId">>
    [] hook = "useSearchDictionary" ->
         <<"entitySlug", "projectId", "languageCode", "text">>
    [] hook = "useSettings" -> <<"userId">>
    [] hook = "useAnalytics" -> <<"entitySlug", "startDate", "endDate", "projectId">>
    [] hook = "useEndpoint" -> <<"entitySlug", "projectId", "endpointId">>
    [] hook = "useGlossary" -> <<"entitySlug", "projectId", "glossaryId">>

\* the arguments a hook tests in `enabled`
RequiredIds(rev, hook) ==
  CASE hook = "useAnalytics" -> {"entitySlug"}
    [] OTHER -> { KeyArgs(rev, hook)[i] : i \in DOMAIN KeyArgs(rev, hook) }

queryKey(rev, hook, props) ==
  <<Text(QUERY_KEYS(rev)[KeyField(rev, hook)])>> \o
    [i \in DOMAIN KeyArgs(rev, hook) |-> props[KeyArgs(rev, hook)[i]]]

\* mutant of enabled: the option is left at its default
enabledAlways(rev, hook, props) == TRUE

\* the `enabled` option a hook hands to useQuery: !!id of every required
\* identifier, and the option of that name for useAnalytics
enabled(rev, hook, props) ==
  /\ hook = "useAnalytics" => props["enabled"]
  /\ \A id \in RequiredIds(rev, hook) : props[id] \notin {Undefined, Text(<<>>)}

ItemProjectIds == { Text(<<"p1">>), Text(<<"p2">>) }
EndpointIds == { Text(<<"e1">>), Text(<<"e2">>) }
GlossaryIds == { Text(<<"g1">>), Text(<<"g2">>) }

\* the arguments a component may render a query hook with
PropsOf(rev, hook) ==
  LET EntitySlugs == { Text(<<>>), Text(<<"acme">>) }
      HookProjectIds == { Text(<<>>), Text(<<"p1">>) }
  IN
  IF rev = "refetch"
  THEN CASE hook = "useProjects" -> [client : {"client"}, entitySlug : EntitySlugs]
         [] hook \in {"useProject", "useDictionaries", "useProjectLanguages"} ->
              [client : {"client"}, entitySlug : EntitySlugs, projectId : HookProjectIds]
         [] hook = "useSearchDictionary" ->
              [client : {"client"}, entitySlug : EntitySlugs, projectId : HookProjectIds,
               languageCode : {Text(<<>>), Text(<<"en">>)},
               text : {Text(<<>>), Text(<<"hello">>)}]
         [] hook = "useSettings" ->
              [client : {"client"}, userId : {Text(<<>>), Text(<<"u1">>)}]
         [] hook = "useAnalytics" ->
              [client : {"client"}, entitySlug : EntitySlugs,
               startDate : {Undefined, Text(<<"2024-01-01">>)}, endDate : {Undefined},
               projectId : {Undefined}, enabled : BOOLEAN]
  ELSE CASE hook = "useProjects" -> [client : {"client"}]
         [] hook = "useProject" -> [client : {"client"}, projectId : ItemProjectIds]
         [] hook \in {"useEndpoints", "useGlossaries"} ->
              [client : {"client"}, entitySlug : {Text(<<"acme">>)},
               projectId : HookProjectIds]
         [] hook = "useEndpoint" ->
              [client : {"client"}, entitySlug : {Text(<<"acme">>)},
               projectId : {Text(<<"p1">>)}, endpointId : EndpointIds]
         [] hook = "useGlossary" ->
              [client : {"client"}, entitySlug : {Text(<<"acme">>)},
               projectId : {Text(<<"p1">>)}, glossaryId : GlossaryIds]

\* the mutations a query hook of the refetching generation returns
OwnMutations(hook) ==
  CASE hook = "useProjects" -> {"createProject", "updateProject", "deleteProject"}
    [] hook = "useDictionaries" ->
         {"createDictionary", "updateDictionary", "deleteDictionary"}
    [] hook = "useSettings" -> {"updateSettings"}
    [] hook = "useProjectLanguages" -> {"updateProjectLanguages"}
    [] OTHER -> {}

\* the hooks of the invalidating generation that call useMutation
MutationHooks ==
  { "useCreateProject", "useUpdateProject", "useDeleteProject",
    "useCreateEndpoint", "useUpdateEndpoint", "useDeleteEndpoint",
    "useCreateGlossary", "useUpdateGlossary", "useDeleteGlossary",
    "useImportGlossaries", "useExportGlossaries" }

\* the arguments a component may render a mutation hook with
MutationPropsOf(hook) ==
  IF hook \in { "useCreateProject", "useUpdateProject", "useDeleteProject" }
  THEN [client : {"client"}]
  ELSE [client : {"client"}, entitySlug : {Text(<<"acme">>)}]

\* the variables mutate() may be called with
VariablesOf(hook) ==
  CASE hook = "useCreateProject" -> [data : {"data"}]
    [] hook = "useUpdateProject" -> [projectId : ItemProjectIds, data : {"data"}]
    [] hook = "useDeleteProject" -> [projectId : ItemProjectIds]
    [] hook \in {"useCreateEndpoint", "useCreateGlossary"} ->
         [projectId : ItemProjectIds, data : {"data"}]
    [] hook = "useUpdateEndpoint" ->
         [projectId : ItemProjectIds, endpointId : EndpointIds, data : {"data"}]
    [] hook = "useDeleteEndpoint" ->
         [projectId : ItemProjectIds, endpointId : EndpointIds]
    [] hook = "useUpdateGlossary" ->
         [projectId : ItemProjectIds, glossaryId : GlossaryIds, data : {"data"}]
    [] hook = "useDeleteGlossary" ->
         [projectId : ItemProjectIds, glossaryId : GlossaryIds]
    [] hook = "useImportGlossaries" -> [projectId : ItemProjectIds, glossaries : {"data"}]
    [] hook = "useExportGlossaries" -> [projectId : ItemProjectIds, format : {Undefined}]

\* mutant of onSuccessKeys: a delete invalidates the deleted item as well
onSuccessKeysWithItem(hook, props, variables) ==
  LET keys == QUERY_KEYS("invalidation")
  IN CASE hook = "useCreateProject" ->
            << <<Text(keys.projects)>> >>
       [] hook \in {"useUpdateProject", "useDeleteProject"} ->
            << <<Text(keys.projects)>>,
               <<Text(keys.project), variables.projectId>> >>
       [] hook = "useCreateEndpoint" ->
            << <<Text(keys.endpoints), props.entitySlug, variables.projectId>> >>
       [] hook \in {"useUpdateEndpoint", "useDeleteEndpoint"} ->
            << <<Text(keys.endpoints), props.entitySlug, variables.projectId>>,
               <<Text(keys.endpoint), props.entitySlug, variables.projectId,
                 variables.endpointId>> >>
       [] hook \in {"useCreateGlossary", "useImportGlossaries"} ->
            << <<Text(keys.glossaries), props.entitySlug, variables.projectId>> >>
       [] hook \in {"useUpdateGlossary", "useDeleteGlossary"} ->
            << <<Text(keys.glossaries), props.entitySlug, variables.projectId>>,
               <<Text(keys.glossary), props.entitySlug, variables.projectId,
                 variables.glossaryId>> >>
       [] OTHER -> <<>>

\* the query keys a mutation hook invalidates in onSuccess, in call order
onSuccessKeys(hook, props, variables) ==
  LET keys == QUERY_KEYS("invalidation")
  IN CASE hook \in {"useCreateProject", "useDeleteProject"} ->
            << <<Text(keys.projects)>> >>
       [] hook = "useUpdateProject" ->
            << <<Text(keys.projects)>>,
               <<Text(keys.project), variables.projectId>> >>
       [] hook \in {"useCreateEndpoint", "useDeleteEndpoint"} ->
            << <<Text(keys.endpoints), props.entitySlug, variables.projectId>> >>
       [] hook = "useUpdateEndpoint" ->
            << <<Text(keys.endpoints), props.entitySlug, variables.projectId>>,
               <<Text(keys.endpoint), props.entitySlug, variables.projectId,
                 variables.endpointId>> >>
       [] hook \in {"useCreateGlossary", "useDeleteGlossary", "useImportGlossaries"} ->
            << <<Text(keys.glossaries), props.entitySlug, variables.projectId>> >>
       [] hook = "useUpdateGlossary" ->
            << <<Text(keys.glossaries), props.entitySlug, variables.projectId>>,
               <<Text(keys.glossary), props.entitySlug, variables.projectId,
                 variables.glossaryId>> >>
       [] OTHER -> <<>>

\* where the cache holds the query of a key, 0 when it does not
Position(cache, key) ==
  IF \E i \in DOMAIN cache : cache[i].queryKey = key
  THEN CHOOSE i \in DOMAIN cache : cache[i].queryKey = key
  ELSE 0

\* what the spy records when a query function runs
Invocation(query, cause) ==
  [queryKey |-> query.queryKey, hook |-> query.hook, props |-> query.props,
   cause |-> cause]

\* queryClient.invalidateQueries({ queryKey: filter }) on a cache and a spy:
\* every query whose key starts with the filter, element by element, is
\* marked, and those a rendered hook observes with `enabled` true are fetched
invalidateQueries(state, filter) ==
  LET Matched(query) ==
        /\ Len(filter) <= Len(query.queryKey)
        /\ \A i \in DOMAIN filter : query.queryKey[i] = filter[i]
      Active(key) ==
        \E o \in ObserverIds :
          /\ observers[o] # NotRendered
          /\ queryKey(hooksRevision, observers[o].hook, observers[o].props) = key
          /\ enabled(hooksRevision, observers[o].hook, observers[o].props)
      Refetched(query) == Matched(query) /\ Active(query.queryKey)
      hit == SelectSeq(state.queries, Refetched)
  IN [ queries |->
         [i \in DOMAIN state.queries |->
            IF Matched(state.queries[i])
            THEN [state.queries[i] EXCEPT
                    !.isInvalidated = TRUE,
                    !.fetchStatus = IF Refetched(state.queries[i])
                                    THEN "fetching" ELSE @]
            ELSE state.queries[i]],
       calls |-> state.calls \o
                   [i \in DOMAIN hit |-> Invocation(hit[i], "invalidate")] ]

RECURSIVE invalidateAll(_, _)
invalidateAll(state, filters) ==
  IF filters = <<>> THEN state
  ELSE invalidateAll(invalidateQueries(state, Head(filters)), Tail(filters))

\* a component renders a query hook: useQuery adds the query to the cache
\* and, when `enabled` holds and no fetch is in flight, runs the query
\* function (components render in the order of their numbers)
Render(o, hook, props) ==
  /\ observers[o] = NotRendered
  /\ \A earlier \in 1..(o - 1) : observers[earlier] # NotRendered
  /\ hook \in QueryHooks(hooksRevision)
  /\ props \in PropsOf(hooksRevision, hook)
  /\ LET key == queryKey(hooksRevision, hook, props)
         at == Position(queries, key)
         fetching == at # 0 /\ queries[at].fetchStatus = "fetching"
         fetchNow == enabled(hooksRevision, hook, props) /\ ~fetching
         query == [queryKey |-> key, hook |-> hook, props |-> props,
                   fetchStatus |-> IF fetchNow \/ fetching THEN "fetching" ELSE "idle",
                   isInvalidated |-> at # 0 /\ queries[at].isInvalidated]
     IN /\ observers' = [observers EXCEPT ![o] = [hook |-> hook, props |-> props]]
        /\ queries' = IF at = 0 THEN Append(queries, query)
                      ELSE [queries EXCEPT ![at] = query]
        /\ queryFnCalls' = IF fetchNow
                           THEN Append(queryFnCalls, Invocation(query, "mount"))
                           ELSE queryFnCalls
  /\ UNCHANGED <<clientVars, helperVars, hooksRevision, mutation>>

\* a component calls the refetch() of the useQuery result, which the
\* refetching hooks also return as update(): the query function runs
Refetch(o) ==
  /\ observers[o] # NotRendered
  /\ Cardinality({ i \in DOMAIN queryFnCalls : queryFnCalls[i].cause = "refetch" })
       < MaxRefetches
  /\ LET at == Position(queries,
                        queryKey(hooksRevision, observers[o].hook, observers[o].props))
     IN /\ queries' = [queries EXCEPT ![at].fetchStatus = "fetching"]
        /\ queryFnCalls' = Append(queryFnCalls, Invocation(queries[at], "refetch"))
  /\ UNCHANGED <<clientVars, helperVars, hooksRevision, observers, mutation>>

\* the promise of a query function settles
QuerySettles(at, ok) ==
  /\ at \in DOMAIN queries
  /\ queries[at].fetchStatus = "fetching"
  /\ queries' = [queries EXCEPT ![at].fetchStatus = "idle",
                                ![at].isInvalidated = IF ok THEN FALSE ELSE @]
  /\ UNCHANGED <<clientVars, helperVars, hooksRevision, observers, queryFnCalls,
                 mutation>>

\* a component calls mutate(variables) on a mutation: of a rendered query
\* hook (owner) in the refetching generation, of a mutation hook otherwise
Mutate(owner, hook, props, variables) ==
  /\ mutation.status # "pending"
  /\ mutation.started < MaxMutations
  /\ IF hooksRevision = "refetch"
     THEN /\ owner \in ObserverIds
          /\ observers[owner] # NotRendered
          /\ hook \in OwnMutations(observers[owner].hook)
          /\ props = observers[owner].props
          /\ variables = [data |-> "data"]
     ELSE /\ owner = 0
          /\ hook \in MutationHooks
          /\ props \in MutationPropsOf(hook)
          /\ variables \in VariablesOf(hook)
  /\ mutation' = [status |-> "pending", hook |-> hook, owner |-> owner,
                  props |-> props, variables |-> variables,
                  started |-> mutation.started + 1]
  /\ UNCHANGED <<clientVars, helperVars, hooksRevision, observers, queries,
                 queryFnCalls>>

\* mutant of MutationSucceeds: onSuccess is never run
MutationSucceedsSilently ==
  /\ mutation.status = "pending"
  /\ mutation' = [mutation EXCEPT !.status = "success"]
  /\ UNCHANGED <<clientVars, helperVars, hooksRevision, observers, queries,
                 queryFnCalls>>

\* the mutation function resolves and useMutation runs onSuccess:
\* query.refetch() in the refetching hooks, invalidateQueries in the others
MutationSucceeds ==
  /\ mutation.status = "pending"
  /\ mutation' = [mutation EXCEPT !.status = "success"]
  /\ IF hooksRevision = "refetch"
     THEN LET own == observers[mutation.owner]
              at == Position(queries, queryKey(hooksRevision, own.hook, own.props))
          IN /\ queries' = [queries EXCEPT ![at].fetchStatus = "fetching"]
             /\ queryFnCalls' =
                  Append(queryFnCalls, Invocation(queries[at], "onSuccess"))
     ELSE LET after == invalidateAll([queries |-> queries, calls |-> queryFnCalls],
                                     onSuccessKeys(mutation.hook, mutation.props,
                                                   mutation.variables))
          IN /\ queries' = after.queries
             /\ queryFnCalls' = after.calls
  /\ UNCHANGED <<clientVars, helperVars, hooksRevision, observers>>

\* the mutation function rejects: the hooks pass no onError, nothing else runs
MutationFails ==
  /\ mutation.status = "pending"
  /\ mutation' = [mutation EXCEPT !.status = "error"]
  /\ UNCHANGED <<clientVars, helperVars, hooksRevision, observers, queries,
                 queryFnCalls>>

\* one component rendering a hook of the refetching generation
InitHooks ==
  /\ ClientIdle
  /\ HelperIdle
  /\ HooksIdle("refetch")

NextHooks ==
  \/ \E hook \in QueryHooks(hooksRevision) :
       \E props \in PropsOf(hooksRevision, hook) : Render(1, hook, props)
  \/ Refetch(1)
  \/ \E ok \in BOOLEAN : QuerySettles(1, ok)
  \/ \E name \in OwnMutations(observers[1].hook) :
       Mutate(1, name, observers[1].props, [data |-> "data"])
  \/ MutationSucceeds
  \/ MutationFails

SpecHooks == InitHooks /\ [][NextHooks]_vars

\* several components rendering hooks of the invalidating generation over
\* one query cache
InitCache ==
  /\ ClientIdle
  /\ HelperIdle
  /\ HooksIdle("invalidation")

\* the page rendered: a list by the first component, items of that list by
\* the others; the page starts one mutation and never refetches by hand
NextCache ==
  LET ItemHookOf(list) ==
        CASE list = "useProjects" -> "useProject"
          [] list = "useEndpoints" -> "useEndpoint"
          [] list = "useGlossaries" -> "useGlossary"
  IN
  \/ \E hook \in { "useProjects", "useEndpoints", "useGlossaries" } :
       \E props \in PropsOf(hooksRevision, hook) : Render(1, hook, props)
  \/ /\ observers[1] # NotRendered
     /\ \E o \in ObserverIds \ {1} :
          \E props \in PropsOf(hooksRevision, ItemHookOf(observers[1].hook)) :
            Render(o, ItemHookOf(observers[1].hook), props)
  \/ \E at \in DOMAIN queries, ok \in BOOLEAN : QuerySettles(at, ok)
  \/ /\ mutation.status = "idle"
     /\ \E hook \in MutationHooks :
          \E props \in MutationPropsOf(hook), variables \in VariablesOf(hook) :
            Mutate(0, hook, props, variables)
  \/ MutationSucceeds
  \/ MutationFails

SpecCache == InitCache /\ [][NextCache]_vars

----------------------------------------------------------------------------
(* Properties of the hooks                                                 *)

\* C25, as stated: a query hook never runs its query function while one of
\* its required identifiers is the empty string, nor does useAnalytics while
\* its enabled option is false.
C25_NoFetchWhileDisabled ==
  \A i \in DOMAIN queryFnCalls :
    LET call == queryFnCalls[i]
    IN /\ \A id \in RequiredIds(hooksRevision, call.hook) :
            call.props[id] # Text(<<>>)
       /\ call.hook = "useAnalytics" => call.props.enabled

\* C25, amended: rendering a query hook runs its query function only when
\* every required identifier is non-empty and, for useAnalytics, the enabled
\* option is true; with an empty identifier or enabled false the query
\* function runs only through refetch()/update() or through the refetch
\* that follows a successful mutation.
C25_NoFetchOnRender ==
  \A i \in DOMAIN queryFnCalls :
    LET call == queryFnCalls[i]
    IN (\/ \E id \in RequiredIds(hooksRevision, call.hook) :
              call.props[id] = Text(<<>>)
        \/ call.hook = "useAnalytics" /\ ~call.props.enabled)
         => call.cause \in {"refetch", "onSuccess"}

C25_Witness ==
  /\ observers[1].hook = "useAnalytics"
  /\ observers[1].props.entitySlug = Text(<<"acme">>)
  /\ ~observers[1].props.enabled
  /\ Len(queries) = 1
  /\ queries[1].fetchStatus = "idle"
  /\ queryFnCalls = <<>>

\* C26: in the refetching hooks the step in which a create, update or delete
\* mutation succeeds runs the query function of the hook's own query once
\* more, and the step in which a mutation fails runs no query function.
C26_RefetchAfterSuccessOnly ==
  [][/\ (mutation.status = "pending" /\ mutation'.status = "success") =>
          LET own == observers[mutation.owner]
              key == queryKey(hooksRevision, own.hook, own.props)
          IN /\ Len(queryFnCalls') = Len(queryFnCalls) + 1
             /\ SubSeq(queryFnCalls', 1, Len(queryFnCalls)) = queryFnCalls
             /\ queryFnCalls'[Len(queryFnCalls')].queryKey = key
             /\ queryFnCalls'[Len(queryFnCalls')].hook = own.hook
             /\ \E at \in DOMAIN queries' :
                  /\ queries'[at].queryKey = key
                  /\ queries'[at].fetchStatus = "fetching"
     /\ (mutation.status = "pending" /\ mutation'.status = "error") =>
          /\ queryFnCalls' = queryFnCalls
          /\ queries' = queries]_vars

C26_Witness ==
  /\ observers[1].hook = "useProjects"
  /\ observers[1].props.entitySlug = Text(<<"acme">>)
  /\ mutation.status = "success"
  /\ mutation.hook = "deleteProject"
  /\ Len(queryFnCalls) = 2
  /\ queryFnCalls[1].cause = "mount"
  /\ queryFnCalls[2].cause = "onSuccess"
  /\ queryFnCalls[2].queryKey =
       <<Text(<<"whisperly-", "projects">>), Text(<<"acme">>)>>

\* C27: the values of QUERY_KEYS are pairwise distinct and each starts with
\* 'whisperly-', so the key of a cached query starts with the value of its
\* own resource family and with the value of no other family.
C27_KeysDistinct ==
  /\ \A rev \in {"refetch", "invalidation"} :
       LET keys == QUERY_KEYS(rev)
       IN /\ \A f \in DOMAIN keys, g \in DOMAIN keys : f # g => keys[f] # keys[g]
          /\ \A f \in DOMAIN keys : StartsWith(keys[f], "whisperly-")
  /\ \A at \in DOMAIN queries :
       \A f \in DOMAIN QUERY_KEYS(hooksRevision) :
         queries[at].queryKey[1] = Text(QUERY_KEYS(hooksRevision)[f])
           <=> f = KeyField(hooksRevision, queries[at].hook)

C27_Witness ==
  /\ Len(queries) = 1
  /\ queries[1].hook = "useSearchDictionary"
  /\ queries[1].queryKey =
       <<Text(<<"whisperly-", "dictionary-search">>), Text(<<"acme">>),
         Text(<<"p1">>), Text(<<"en">>), Text(<<"hello">>)>>
  /\ queries[1].fetchStatus = "fetching"

\* C30: in the invalidating hooks the step in which an update mutation
\* succeeds marks exactly the list query and the query of the updated item
\* as invalidated, and the step in which a delete mutation succeeds marks
\* the list query only: the query of the deleted item is left as it was.
C30_DeleteLeavesItem ==
  [][(mutation.status = "pending" /\ mutation'.status = "success"
        /\ mutation.hook \in {"useUpdateProject", "useDeleteProject",
                              "useUpdateEndpoint", "useDeleteEndpoint",
                              "useUpdateGlossary", "useDeleteGlossary"}) =>
       LET m == mutation
           list ==
             CASE m.hook \in {"useUpdateProject", "useDeleteProject"} ->
                    <<Text(<<"whisperly-", "projects">>)>>
               [] m.hook \in {"useUpdateEndpoint", "useDeleteEndpoint"} ->
                    <<Text(<<"whisperly-", "endpoints">>), m.props.entitySlug,
                      m.variables.projectId>>
               [] m.hook \in {"useUpdateGlossary", "useDeleteGlossary"} ->
                    <<Text(<<"whisperly-", "glossaries">>), m.props.entitySlug,
                      m.variables.projectId>>
           item ==
             CASE m.hook \in {"useUpdateProject", "useDeleteProject"} ->
                    <<Text(<<"whisperly-", "project">>), m.variables.projectId>>
               [] m.hook \in {"useUpdateEndpoint", "useDeleteEndpoint"} ->
                    <<Text(<<"whisperly-", "endpoint">>), m.props.entitySlug,
                      m.variables.projectId, m.variables.endpointId>>
               [] m.hook \in {"useUpdateGlossary", "useDeleteGlossary"} ->
                    <<Text(<<"whisperly-", "glossary">>), m.props.entitySlug,
                      m.variables.projectId, m.variables.glossaryId>>
           isUpdate == m.hook \in {"useUpdateProject", "useUpdateEndpoint",
                                   "useUpdateGlossary"}
       IN /\ DOMAIN queries' = DOMAIN queries
          /\ \A at \in DOMAIN queries :
               IF \/ queries[at].queryKey = list
                  \/ isUpdate /\ queries[at].queryKey = item
               THEN queries'[at].isInvalidated
               ELSE queries'[at] = queries[at]
          /\ \A i \in (Len(queryFnCalls) + 1)..Len(queryFnCalls') :
               /\ queryFnCalls'[i].cause = "invalidate"
               /\ \/ queryFnCalls'[i].queryKey = list
                  \/ isUpdate /\ queryFnCalls'[i].queryKey = item]_vars

C30_Witness ==
  /\ mutation.status = "success"
  /\ mutation.hook = "useDeleteEndpoint"
  /\ mutation.variables.projectId = Text(<<"p1">>)
  /\ mutation.variables.endpointId = Text(<<"e1">>)
  /\ Len(queries) = 2
  /\ queries[1].hook = "useEndpoints"
  /\ queries[1].props.projectId = Text(<<"p1">>)
  /\ queries[1].isInvalidated
  /\ queries[2].hook = "useEndpoint"
  /\ queries[2].props.endpointId = Text(<<"e1">>)
  /\ ~queries[2].isInvalidated
  /\ queryFnCalls[Len(queryFnCalls)].cause = "invalidate"
  /\ queryFnCalls[Len(queryFnCalls)].hook = "useEndpoints"

====
